---- MODULE Spec2Model ----
(***************************************************************************)
(* Verification model of the "party invitation" WebGL experience:          *)
(*   - PerfScaler            (util/PerfScaler.ts, util/math.ts)            *)
(*   - world state machine   (scene/world/createMysticGlobeWorld.ts, in    *)
(*                            its lift-based and thrust-based versions)    *)
(*   - experience controller (scene/WinterMysticExperience.ts)             *)
(*   - application shell     (runtime/createApp.ts, ui/overlay.ts)         *)
(*                                                                         *)
(* Numbers are fixed point.  Time stamps handed to PerfScaler are in ticks *)
(* of 1/600 s, frame rates in 1/1000 fps, pixel ratios and quality levels  *)
(* in 1/10000.  World and controller times are in milliseconds, lift in    *)
(* 1/1000, altitude in 1/1000 and vertical speed in 1/1000 per second.     *)
(***************************************************************************)
EXTENDS Integers, Sequences, FiniteSets, TLC

VARIABLES
  \* ---- PerfScaler fields ----
  minPixelRatio, maxPixelRatio, lastFrame, lastEval, emaFps, pixelRatio,
  qualityLevel,
  onChange,      \* the onChange call made by the last constructor/frame step
  \* ---- the caller of PerfScaler.frame ----
  now,           \* the time stamp of the latest frame() call
  gap,           \* spacing of the current run of frame() calls, in ticks
  streak,        \* number of consecutive frame() calls made with that spacing
  switches,      \* number of times the spacing has changed
  \* ---- the world (createMysticGlobeWorld) ----
  world,         \* the closure variables of createMysticGlobeWorld
  held,          \* the escape condition's record, kept for the properties:
                 \*   run: time it has held without a break, up to now
                 \*   sum: time it has held since the charge was last zeroed
  left,          \* how many calls of each bounded kind may still be made
  frameDt,       \* the length of a frame of the caller, in ms
  \* ---- the experience (WinterMysticExperience) ----
  ctl,           \* the fields of WinterMysticExperience, and what it holds
                 \* of the browser: frame requests, listeners, the renderer
  reported,      \* the phases passed to music.setPhase(), in order
  budget,        \* how many events of each bounded kind may still arrive
  poster,        \* the poster view: pan, zoom, yaw, pitch, the pointers on
                 \* the poster and the gesture they make
  \* ---- the app (createApp): overlay, audio, experience ----
  overlay,       \* the closure variables of createOverlayUI
  audio,         \* the fields of AmbientAudio, its start() in flight, and
                 \* how often start() was called
  app,           \* the closure variables of createApp
  seen,          \* what has happened, kept for the properties: the last
                 \* user gesture, and whether dispose() was called
  \* ---- the loading of the poster and of the ambient audio ----
  assets,        \* one load: what is loaded, how its URLs end, where the
                 \* load is and what it gave
  \* ---- the generated ambient loop ----
  buffer,        \* the samples of the two channels and where the crossfade
                 \* of the seam is
  \* ---- the acid stabs of the generated loop ----
  acid,          \* the sequencer of AmbientAudio: phase, the time of the
                 \* audio clock, the next step, and the steps passed
  \* ---- the fingers on the canvas ----
  touch          \* the pointers that went down on the canvas and are still
                 \* down, and which of them is the primary one

perfVars == <<minPixelRatio, maxPixelRatio, lastFrame, lastEval, emaFps,
              pixelRatio, qualityLevel, onChange, now, gap, streak, switches>>

worldVars == <<world, held, left, frameDt>>

ctlVars == <<ctl, reported, budget, poster>>

appVars == <<overlay, audio, app, seen, assets, buffer, acid, touch>>

vars == <<perfVars, worldVars, ctlVars, appVars>>

Max(a, b) == IF a >= b THEN a ELSE b
Min(a, b) == IF a <= b THEN a ELSE b
Abs(a) == IF a >= 0 THEN a ELSE 0 - a

(***************************************************************************)
(* util/math.ts                                                            *)
(***************************************************************************)
clamp(v, lo, hi) == Max(lo, Min(hi, v))

\* lerp(a, b, t) with t given in 1/1000
lerp(a, b, t) == a + ((b - a) * t) \div 1000

(***************************************************************************)
(* util/PerfScaler.ts                                                      *)
(***************************************************************************)
ControllerMinPixelRatio == 7500     \* 0.75
ControllerPixelRatioCap == 15000    \* 1.5
InitialEmaFps == 60000              \* 60 fps
EmaWeight == 80                     \* 0.08
EvalInterval == 1200                \* 2.0 s
LowFps == 48000                     \* 48 fps
HighFps == 57000                    \* 57 fps
StepDown == 1500                    \* 0.15
StepUp == 1000                      \* 0.1
ChangeEpsilon == 10                 \* 0.001
QualityFloor == 2500                \* 0.25
QualitySpan == 7500                 \* 0.75
One == 10 * 1000                    \* 1.0 in 1/10000
MinDtFps == 1000 * 1000             \* 1 / 0.001 s, in 1/1000 fps

\* window.devicePixelRatio values fed to the constructor (in 1/10000):
\* 0.5, 0.8505, 1, 1.0505 and 2.
DevicePixelRatios == {5000, 8505, 10000, 10505, 20000}

\* 1 / Math.max(0.001, now - lastFrame), in 1/1000 fps, for a gap in ticks
InstFps(d) == IF d < 1 THEN MinDtFps ELSE (600 * 1000) \div d

\* the quality level PerfScaler derives from a pixel ratio
QualityOf(next, lo, hi) ==
  LET span == IF hi - lo = 0 THEN One ELSE hi - lo
      q == clamp(((next - lo) * One) \div span, 0, One)
  IN  QualityFloor + (QualitySpan * q) \div One

\* NextRatio without the lower clamp
NextRatioNoFloor(ema, pr, lo, hi) ==
  LET n1 == IF ema < LowFps THEN pr - StepDown ELSE pr
  IN  IF ema > HighFps THEN Min(hi, pr + StepUp) ELSE n1

\* NextRatio taking the small step in both directions
NextRatioSmallStepDown(ema, pr, lo, hi) ==
  LET n1 == IF ema < LowFps THEN Max(lo, pr - StepUp) ELSE pr
  IN  IF ema > HighFps THEN Min(hi, pr + StepUp) ELSE n1

\* NextRatio with the raise stopping one step short of the upper bound
NextRatioShortCeiling(ema, pr, lo, hi) ==
  LET n1 == IF ema < LowFps THEN Max(lo, pr - StepDown) ELSE pr
  IN  IF ema > HighFps THEN Min(hi - StepUp, pr + StepUp) ELSE n1

\* the pixel ratio an evaluation proposes
NextRatio(ema, pr, lo, hi) ==
  LET low == ema < LowFps
      high == ema > HighFps
      n1 == IF low THEN Max(lo, pr - StepDown) ELSE pr
  IN  IF high THEN Min(hi, pr + StepUp) ELSE n1

\* Accepts without the epsilon
AcceptsAlways(next, pr) == TRUE

\* whether the proposed ratio is applied
Accepts(next, pr) == Abs(next - pr) > ChangeEpsilon

NoCall == [called |-> FALSE, pixelRatio |-> 0, qualityLevel |-> 0]
Call(r, q) == [called |-> TRUE, pixelRatio |-> r, qualityLevel |-> q]

PerfAt(dpr) ==
  /\ minPixelRatio = ControllerMinPixelRatio
  /\ maxPixelRatio = Max(ControllerMinPixelRatio,
                         Min(dpr, ControllerPixelRatioCap))
  /\ lastFrame = 0
  /\ lastEval = 0
  /\ emaFps = InitialEmaFps
  /\ pixelRatio = maxPixelRatio
  /\ qualityLevel = One
  /\ onChange = Call(pixelRatio, qualityLevel)

PerfInit == \E dpr \in DevicePixelRatios : PerfAt(dpr)

\* EvalDue at every frame
EvalDueAlways(t, le) == TRUE

\* whether 2 s have passed since the last evaluation
EvalDue(t, le) == ~(t - le < EvalInterval)

\* PerfScaler.frame(nowSeconds)
PerfFrame(t) ==
  IF lastFrame = 0
  THEN /\ lastFrame' = t
       /\ lastEval' = t
       /\ onChange' = NoCall
       /\ UNCHANGED <<emaFps, pixelRatio, qualityLevel>>
  ELSE LET ema == lerp(emaFps, InstFps(t - lastFrame), EmaWeight)
           next == NextRatio(ema, pixelRatio, minPixelRatio, maxPixelRatio)
       IN  /\ lastFrame' = t
           /\ emaFps' = ema
           /\ IF ~EvalDue(t, lastEval)
              THEN /\ onChange' = NoCall
                   /\ UNCHANGED <<lastEval, pixelRatio, qualityLevel>>
              ELSE /\ lastEval' = t
                   /\ IF Accepts(next, pixelRatio)
                      THEN /\ pixelRatio' = next
                           /\ qualityLevel' =
                                QualityOf(next, minPixelRatio, maxPixelRatio)
                           /\ onChange' = Call(pixelRatio', qualityLevel')
                      ELSE /\ onChange' = NoCall
                           /\ UNCHANGED <<pixelRatio, qualityLevel>>

(***************************************************************************)
(* The caller of frame(): the render loop hands in clock.elapsedTime.      *)
(* Frames arrive in runs of constant spacing: 1/60 s, 1/50 s, 1/30 s, a    *)
(* repeated time stamp, or a 2.5 s stall.  The spacing may change after an *)
(* evaluation, after a repeated time stamp, and before the first frame.    *)
(***************************************************************************)
MaxNow == 6100
MaxDup == 1
MaxSwitches == 3
StreakCap == 125

Gap60 == 600 \div 60
Gap50 == 600 \div 50
Gap30 == 600 \div 30
GapStall == (600 * 5) \div 2
Gaps == {0, Gap60, Gap50, Gap30, GapStall}

CallerInit ==
  /\ now = 0
  /\ gap \in Gaps
  /\ streak = 0
  /\ switches = 0

\* the scaler of a display of pixel ratio 1, before its first frame
PerfAtRest ==
  /\ PerfAt(One)
  /\ now = 0
  /\ gap = 0
  /\ streak = 0
  /\ switches = 0

MaySwitch ==
  /\ switches < MaxSwitches
  /\ streak = 0 \/ gap = 0 \/ lastEval = lastFrame

\* one animation frame: the caller advances its clock and calls frame()
PerfTick ==
  \E g \in Gaps :
    /\ g = gap \/ MaySwitch
    /\ ~(g = 0 /\ gap = 0 /\ streak >= MaxDup)
    /\ now + g <= MaxNow
    /\ now' = now + g
    /\ gap' = g
    /\ streak' = IF g = gap THEN Min(streak + 1, StreakCap) ELSE 1
    /\ switches' = IF g = gap THEN switches ELSE switches + 1
    /\ PerfFrame(now + g)
    /\ UNCHANGED <<minPixelRatio, maxPixelRatio>>

(***************************************************************************)
(* scene/world/createMysticGlobeWorld.ts: the gameplay state of the world, *)
(* in its two versions.  "lift": taps add lift and the plane follows a     *)
(* target altitude.  "thrust": holding thrusts against gravity.            *)
(***************************************************************************)
BaseY == 1250                 \* baseY = 1.25
YMinBelowBase == 550          \* playerYMin = baseY - 0.55
LiftYMaxAboveBase == 5100     \* playerYMax = baseY + 5.1
LiftSoftCeilingAboveBase == 3850
LiftAltitudeMargin == 320     \* altitudeRange = playerYMax - baseY - 0.32
LiftPerFlap == 220            \* lift + 0.22
LiftHoldAfterFlap == 350      \* liftDecayHold = 0.35
LiftDecayHeld == 80           \* 0.08 per second
LiftDecayFree == 240          \* 0.24 per second
LiftStiffness == 16
LiftCeilingPush == 7200       \* -7.2
LiftEscapeLift == 920         \* escapeLift = 0.92
LiftChargeDrain == 26         \* 2.6, in tenths
LiftChargeFull == 850         \* escapeCharge >= 0.85
LiftFailSafe == 90000         \* playElapsed >= 90
LiftEscapeDuration == 3200    \* escapeDuration = 3.2
LiftEscapeTargetMargin == 250 \* playerYMax - baseY - 0.25
ThrustYMaxAboveBase == 3100   \* playerYMax = baseY + 3.1
ThrustGravity == 7200         \* gravity = -7.2
\* the engine pulling down as hard as gravity
ThrustReversed == -ThrustGravity
ThrustUpAccel == 5100         \* upAccel = 5.1
ThrustVelLimit == 8000        \* clamp(..., -8.0, 8.0)
ThrustFlapKick == 3600        \* velY + 3.6
ThrustKickDecay == 13         \* 6.5, in halves
ThrustEscapeAboveBase == 2450 \* escapeY = baseY + 2.45
ThrustChargeDrain == 22       \* 2.2, in tenths
ThrustChargeFull == 150       \* escapeCharge >= 0.15
ThrustFailSafe == 20000       \* playElapsed >= 20
ThrustEscapeDuration == 1050  \* escapeDuration = 1.05
PulseDecay == 3               \* enginePulse - dt * 3.0

Kilo == 10 * 100

IsLift(w) == w.variant = "lift"

PlayerYMin(w) == BaseY - YMinBelowBase
PlayerYMax(w) ==
  BaseY + (IF IsLift(w) THEN LiftYMaxAboveBase ELSE ThrustYMaxAboveBase)
SoftCeilingY == BaseY + LiftSoftCeilingAboveBase

\* Math.exp(-8.5 * dt), in 1/1000, for the frame deltas used
DampLift(dt) ==
  CASE dt = 0 -> 1000 [] dt = 50 -> 654 [] dt = 250 -> 119 [] OTHER -> 0

\* Math.pow(0.987, dt * 60), in 1/1000, for the frame deltas used
DampThrust(dt) ==
  CASE dt = 0 -> 1000 [] dt = 50 -> 962 [] dt = 100 -> 924
    [] dt = 250 -> 822 [] OTHER -> 0

\* dt > 0 ? 1 - Math.exp(-dt * followRate) : 1, in 1/1000
PitchFollow(dt, rate) ==
  CASE dt = 0 -> 1000
    [] dt = 50 /\ rate = 9 -> 362
    [] dt = 50 /\ rate = 5 -> 221
    [] dt = 250 /\ rate = 9 -> 895
    [] dt = 250 /\ rate = 5 -> 713
    [] OTHER -> 1000

\* the world as createMysticGlobeWorld leaves it
NewWorld(v) ==
  [variant |-> v, state |-> "idle", playElapsed |-> 0, gameOverElapsed |-> 0,
   escapeElapsed |-> 0, escapeCharge |-> 0, didEscape |-> FALSE,
   y |-> BaseY, yVel |-> 0, targetAltitude |-> BaseY, smoothPitch |-> 0,
   lift |-> 0, liftDecayHold |-> 0, enginePulse |-> 0,
   thrusting |-> FALSE, flapKick |-> 0]

\* syncPlayerPose(dt): the part that is kept between calls (smoothPitch)
SyncPlayerPose(w, dt) ==
  IF ~IsLift(w) THEN w
  ELSE
    LET climbIndicator ==
          clamp((w.yVel * 6) \div 10 + ((w.targetAltitude - w.y) * 18) \div 10,
                -3500, 3500)
        targetPitch == clamp((climbIndicator * 12) \div 100, -320, 450)
        followRate == IF targetPitch > w.smoothPitch THEN 9 ELSE 5
    IN  [w EXCEPT !.smoothPitch =
           lerp(w.smoothPitch, targetPitch, PitchFollow(dt, followRate))]

\* player.rotation.z as syncPlayerPose() leaves it, in thousandths of a
\* radian; rotation.x and rotation.y are set to 0
PlayerRotationZ(w) ==
  IF IsLift(w) THEN w.smoothPitch
  ELSE clamp((-w.yVel * 18) \div 100, -650, 550) - (w.flapKick * 22) \div 100

\* recenter()
Recenter(w) ==
  IF IsLift(w)
  THEN SyncPlayerPose([w EXCEPT !.y = BaseY, !.yVel = 0, !.lift = 0,
                                !.liftDecayHold = 0, !.enginePulse = 0,
                                !.targetAltitude = BaseY, !.escapeCharge = 0,
                                !.smoothPitch = 0], 0)
  ELSE SyncPlayerPose([w EXCEPT !.yVel = 0, !.y = BaseY, !.escapeCharge = 0], 0)

\* start()
Start(w) ==
  IF IsLift(w)
  THEN Recenter([w EXCEPT !.state = "playing", !.playElapsed = 0,
                          !.gameOverElapsed = 0, !.escapeElapsed = 0,
                          !.escapeCharge = 0, !.didEscape = FALSE, !.lift = 0,
                          !.liftDecayHold = 0, !.enginePulse = 0,
                          !.targetAltitude = BaseY])
  ELSE Recenter([w EXCEPT !.state = "playing", !.playElapsed = 0,
                          !.gameOverElapsed = 0, !.flapKick = 0,
                          !.escapeElapsed = 0, !.escapeCharge = 0,
                          !.didEscape = FALSE])

\* setThrusting(next), which only the thrust version has
SetThrusting(w, next) == [w EXCEPT !.thrusting = next]

\* flap()
Flap(w) ==
  IF w.state # "playing" THEN w
  ELSE IF IsLift(w)
  THEN [w EXCEPT !.lift = clamp(w.lift + LiftPerFlap, 0, Kilo),
                 !.liftDecayHold = LiftHoldAfterFlap,
                 !.enginePulse = Kilo]
  ELSE [w EXCEPT !.yVel = clamp(Max(w.yVel, 0) + ThrustFlapKick,
                                -ThrustVelLimit, ThrustVelLimit),
                 !.flapKick = Kilo]

\* triggerGameOver() without its guard
TriggerGameOverAnyState(w) ==
  [w EXCEPT !.state = "gameover", !.gameOverElapsed = 0]

\* triggerGameOver()
TriggerGameOver(w) ==
  IF w.state # "playing" THEN w
  ELSE [w EXCEPT !.state = "gameover", !.gameOverElapsed = 0]

\* triggerEscape()
TriggerEscape(w) ==
  IF w.state # "playing" THEN w
  ELSE [w EXCEPT !.state = "escape", !.escapeElapsed = 0, !.escapeCharge = 0,
                 !.didEscape = TRUE,
                 !.targetAltitude =
                    IF IsLift(w)
                    THEN BaseY + Max(0, PlayerYMax(w) - BaseY
                                         - LiftEscapeTargetMargin)
                    ELSE w.targetAltitude]

\* update() without the clamp of y at playerYMax
CeilingOpen(w, y) == y

\* update(): if (y >= playerYMax) y = playerYMax, y = Math.min(y, playerYMax)
CeilingClamp(w, y) == Min(y, PlayerYMax(w))

\* update(dt, t), state "playing": the motion of the player
Physics(w, dt) ==
  IF IsLift(w)
  THEN
    LET hold == IF w.liftDecayHold > 0 THEN Max(0, w.liftDecayHold - dt)
                ELSE w.liftDecayHold
        decay == IF hold > 0 THEN LiftDecayHeld ELSE LiftDecayFree
        lift1 == Max(0, w.lift - (decay * dt) \div Kilo)
        pulse == Max(0, w.enginePulse - dt * PulseDecay)
        altitudeRange == Max(0, PlayerYMax(w) - BaseY - LiftAltitudeMargin)
        targetY == BaseY + clamp((lift1 * altitudeRange) \div Kilo,
                                 0, altitudeRange)
        v1 == IF DampLift(dt) = 0 THEN 0
              ELSE w.yVel + ((targetY - w.y) * LiftStiffness * dt) \div Kilo
        v2 == IF DampLift(dt) = 0 THEN 0 ELSE (v1 * DampLift(dt)) \div Kilo
        y1 == w.y + (v2 * dt) \div Kilo
        y2 == IF y1 <= PlayerYMin(w) THEN PlayerYMin(w) ELSE y1
        v3 == IF y1 <= PlayerYMin(w) THEN Max(0, v2) ELSE v2
        ceilingT == clamp(((y2 - SoftCeilingY) * Kilo)
                            \div Max(1, PlayerYMax(w) - SoftCeilingY), 0, Kilo)
        v4 == IF y2 >= SoftCeilingY
              THEN v3 - (((LiftCeilingPush * ceilingT) \div Kilo) * dt)
                          \div Kilo
              ELSE v3
        y3 == CeilingClamp(w, y2)
        v5 == IF y2 >= PlayerYMax(w) THEN Min(0, v4) ELSE v4
    IN  [w EXCEPT !.playElapsed = w.playElapsed + dt,
                  !.liftDecayHold = hold, !.lift = lift1,
                  !.enginePulse = pulse, !.targetAltitude = targetY,
                  !.yVel = v5, !.y = y3]
  ELSE
    LET accel == IF w.thrusting THEN ThrustUpAccel ELSE -ThrustGravity
        v1 == clamp(w.yVel + (accel * dt) \div Kilo,
                    -ThrustVelLimit, ThrustVelLimit)
        v2 == (v1 * DampThrust(dt)) \div Kilo
        y1 == w.y + (v2 * dt) \div Kilo
        y2 == IF y1 <= PlayerYMin(w) THEN PlayerYMin(w) ELSE y1
        v3 == IF y1 <= PlayerYMin(w) THEN Max(0, v2) ELSE v2
    IN  [w EXCEPT !.playElapsed = w.playElapsed + dt,
                  !.yVel = v3, !.y = CeilingClamp(w, y2),
                  !.flapKick = Max(0, w.flapKick
                                        - (dt * ThrustKickDecay) \div 2)]

\* lift >= escapeLift, or y >= escapeY
EscapeHolds(w) ==
  IF IsLift(w) THEN w.lift >= LiftEscapeLift
  ELSE w.y >= BaseY + ThrustEscapeAboveBase

ChargeDrain(w) == IF IsLift(w) THEN LiftChargeDrain ELSE ThrustChargeDrain
ChargeFull(w) == IF IsLift(w) THEN LiftChargeFull ELSE ThrustChargeFull
FailSafe(w) == IF IsLift(w) THEN LiftFailSafe ELSE ThrustFailSafe
EscapeDuration(w) ==
  IF IsLift(w) THEN LiftEscapeDuration ELSE ThrustEscapeDuration

\* a charge that is lost whole when the escape condition lapses
ChargeResets(w, dt) == 0

\* the charge after an update in which the escape condition did not hold

Drained(w, dt) == Max(0, w.escapeCharge - (dt * ChargeDrain(w)) \div 10)

\* escapeCharge += dt, or escapeCharge = Math.max(0, escapeCharge - dt * k)
Charge(w, dt) ==
  [w EXCEPT !.escapeCharge = IF EscapeHolds(w) THEN w.escapeCharge + dt
                             ELSE Drained(w, dt)]

\* if (escapeCharge >= full) triggerEscape()
EscapeCheck(w) ==
  IF w.escapeCharge >= ChargeFull(w) THEN TriggerEscape(w) ELSE w

\* update() without the fail-safe
FailSafeNever(w) == w

\* if (playElapsed >= failSafe) triggerGameOver()
FailSafeCheck(w) ==
  IF w.playElapsed >= FailSafe(w) THEN TriggerGameOver(w) ELSE w

\* update, state "playing"
PlayingStep(w, dt) ==
  IF w.state # "playing" THEN w
  ELSE CHOOSE w5 \in
         {IF w4.state = "playing" THEN SyncPlayerPose(w4, dt) ELSE w4 :
            w4 \in {FailSafeCheck(w3) :
              w3 \in {EscapeCheck(w2) :
                w2 \in {Charge(w1, dt) : w1 \in {Physics(w, dt)}}}}} : TRUE

\* update, state "escape", without the clock of the escape
EscapeStepFrozen(w, dt) == w

\* update, state "escape"
EscapeStep(w, dt) ==
  IF w.state # "escape" THEN w
  ELSE LET elapsed == w.escapeElapsed + dt
       IN  IF elapsed >= EscapeDuration(w)
           THEN [w EXCEPT !.escapeElapsed = elapsed, !.state = "gameover",
                          !.gameOverElapsed = 0]
           ELSE [w EXCEPT !.escapeElapsed = elapsed]

\* the reveal is complete well before this; the model stops the clock there
GameOverCap == 500

\* update, state "gameover"
GameOverStep(w, dt) ==
  IF w.state # "gameover" THEN w
  ELSE [w EXCEPT !.gameOverElapsed = Min(GameOverCap, w.gameOverElapsed + dt)]

\* update(dt, t); the value returned is the state of the result
Update(w, dt) ==
  CHOOSE w3 \in
    {GameOverStep(w2, dt) :
       w2 \in {EscapeStep(w1, dt) : w1 \in {PlayingStep(w, dt)}}} : TRUE

(***************************************************************************)
(* The callers of the world: any sequence of calls of its methods.         *)
(***************************************************************************)
MaxStarts == 2       \* calls of start()
MaxFlaps == 4        \* calls of flap() while playing
MaxToggles == 1      \* changes of the thrust input
MaxRecenters == 1    \* calls of recenter()
MaxFrames == 2       \* updates of a frame's length while playing

\* one flight, long enough for the escape charge to fill, lapse and refill
FlightFlaps == 8
FlightToggles == 2
FlightFrames == 7

SlowFrame == Kilo \div 4     \* a frame of 250 ms
QuickFrame == Kilo \div 10   \* a frame of 100 ms
LongDt == 90 * Kilo          \* a stall, in ms
WorldDts == {0, frameDt, LongDt}

NotHeld == [run |-> 0, sum |-> 0]

\* the record of the escape condition after update(dt) in state "playing"
HeldAfter(w, h, dt) ==
  LET p == Physics(w, dt)
  IN  IF EscapeHolds(p)
      THEN [run |-> h.run + dt, sum |-> h.sum + dt]
      ELSE [run |-> 0, sum |-> IF Charge(p, dt).escapeCharge = 0 THEN 0
                               ELSE h.sum]

WorldInit ==
  /\ \E v \in {"lift", "thrust"} : world = NewWorld(v)
  /\ held = NotHeld
  /\ left = [starts |-> MaxStarts, flaps |-> MaxFlaps, toggles |-> MaxToggles,
             recenters |-> MaxRecenters, frames |-> MaxFrames]
  /\ frameDt = SlowFrame

\* a flight: the world after start(), updated in frames short enough for
\* the charge to take several of them
FlightInit ==
  /\ \E v \in {"lift", "thrust"} : world = Start(NewWorld(v))
  /\ held = NotHeld
  /\ left = [starts |-> 0, flaps |-> FlightFlaps,
             toggles |-> FlightToggles, recenters |-> 0,
             frames |-> FlightFrames]
  /\ frameDt = IF IsLift(world) THEN SlowFrame ELSE QuickFrame

WorldAtRest ==
  /\ world = NewWorld("thrust")
  /\ held = NotHeld
  /\ left = [starts |-> 0, flaps |-> 0, toggles |-> 0, recenters |-> 0,
             frames |-> 0]
  /\ frameDt = 0

WorldStart ==
  /\ left.starts > 0
  /\ world' = Start(world)
  /\ held' = NotHeld
  /\ left' = [left EXCEPT !.starts = @ - 1]
  /\ UNCHANGED frameDt

WorldFlap ==
  /\ world.state = "playing" => left.flaps > 0
  /\ world' = Flap(world)
  /\ left' = IF world.state = "playing"
             THEN [left EXCEPT !.flaps = @ - 1] ELSE left
  /\ UNCHANGED <<held, frameDt>>

WorldSetThrusting ==
  /\ ~IsLift(world)
  /\ \E next \in BOOLEAN :
       /\ next # world.thrusting => left.toggles > 0
       /\ world' = SetThrusting(world, next)
       /\ left' = IF next # world.thrusting
                  THEN [left EXCEPT !.toggles = @ - 1] ELSE left
  /\ UNCHANGED <<held, frameDt>>

WorldRecenter ==
  /\ left.recenters > 0
  /\ world' = Recenter(world)
  /\ held' = NotHeld
  /\ left' = [left EXCEPT !.recenters = @ - 1]
  /\ UNCHANGED frameDt

WorldTriggerGameOver ==
  /\ world' = TriggerGameOver(world)
  /\ UNCHANGED <<held, left, frameDt>>

WorldUpdate ==
  \E dt \in WorldDts :
    LET framed == world.state = "playing" /\ dt = frameDt
    IN  /\ framed => left.frames > 0
        /\ world' = Update(world, dt)
        /\ held' = IF world.state = "playing"
                   THEN HeldAfter(world, held, dt) ELSE held
        /\ left' = IF framed THEN [left EXCEPT !.frames = @ - 1] ELSE left
        /\ UNCHANGED frameDt

\* a flight that is left to run: update() with dt > 0 for as long as it
\* takes, with a few inputs at any time of it
EndureFlaps == 7
EndureToggles == 2
EndureRecenters == 1
EndureWindow == 1000   \* the inputs arrive within this time, in ms, of the
                       \* start of the flight or of the fail-safe limit

EndureInit ==
  /\ \E v \in {"lift", "thrust"} : world = Start(NewWorld(v))
  /\ held = NotHeld
  /\ left = [starts |-> 0, flaps |-> EndureFlaps,
             toggles |-> EndureToggles, recenters |-> EndureRecenters,
             frames |-> 0]
  /\ frameDt = SlowFrame

\* the flight has just begun, or is about to reach the fail-safe limit
Alert ==
  \/ world.state # "playing"
  \/ world.playElapsed < EndureWindow
  \/ world.playElapsed >= FailSafe(world) - EndureWindow

\* update(dt, t) with the dt > 0 of a frame
WorldAdvance ==
  /\ frameDt > 0
  /\ \E next \in {Update(world, frameDt)} : world' = next
  /\ \E after \in {IF world.state = "playing"
                    THEN HeldAfter(world, held, frameDt) ELSE held} :
       held' = after
  /\ UNCHANGED <<left, frameDt>>

(***************************************************************************)
(* scene/WinterMysticExperience.ts: the controller of the experience.  It  *)
(* calls setThrusting(), which only the thrust version of the world has.   *)
(***************************************************************************)
IntroDuration == 7200         \* introDuration = 7.2
OutroDuration == 1600         \* outroDuration = 1.6
CountdownFrom == 3000         \* countdownTime = 3.0
DtCap == 50                   \* Math.min(0.05, clock.getDelta())
AutoThrustMargin == 60        \* targetY > player.y + 0.06

\* the fields as the constructor leaves them; null is "none", 0 or {}
NewExperience ==
  [preload |-> "none", loaded |-> FALSE, gpu |-> 0, listening |-> FALSE,
   rafPending |-> FALSE, resizeRafPending |-> FALSE,
   running |-> FALSE, introActive |-> TRUE, introElapsed |-> 0,
   playActive |-> FALSE, countdownActive |-> FALSE, countdownTime |-> 0,
   countdownShown |-> 0, pressing |-> FALSE, gameOver |-> FALSE,
   outroActive |-> FALSE, outroElapsed |-> 0,
   primaryPointerType |-> "none", primaryPointerId |-> 0,
   lastPointerType |-> "none", pointerNdcY |-> 0, posterPointers |-> {},
   lastMusicPhase |-> "none", lastThrusting |-> FALSE]

\* the controller, its world and the calls its music has received
Sys(c, w, log) == [c |-> c, w |-> w, log |-> log]

\* setMusicPhase(phase)
SetMusicPhase(s, phase) ==
  IF s.c.lastMusicPhase = phase THEN s
  ELSE [s EXCEPT !.c.lastMusicPhase = phase, !.log = Append(@, phase)]

\* setMusicThrusting(thrusting)
SetMusicThrusting(s, thrusting) ==
  [s EXCEPT !.c.lastThrusting = thrusting]

\* finishIntroAndStartPlay()
FinishIntroAndStartPlay(s) ==
  IF ~s.c.loaded THEN s
  ELSE SetMusicPhase(
         SetMusicThrusting(
           [s EXCEPT !.c.introActive = FALSE, !.c.playActive = FALSE,
                     !.c.countdownActive = TRUE,
                     !.c.countdownTime = CountdownFrom,
                     !.c.countdownShown = 0,
                     !.w = SetThrusting(Recenter(s.w), FALSE)],
           FALSE),
         "countdown")

\* loop: the intro
IntroStep(s, dt) ==
  IF ~s.c.introActive THEN s
  ELSE LET s1 == [s EXCEPT !.c.introElapsed = @ + dt]
       IN  IF s1.c.introElapsed >= IntroDuration
           THEN FinishIntroAndStartPlay(s1) ELSE s1

\* Math.ceil of a time in ms, in seconds
CeilSeconds(ms) == (ms + Kilo - 1) \div Kilo

\* loop: the countdown
CountdownStep(s, dt) ==
  IF s.c.introActive \/ ~s.c.countdownActive THEN s
  ELSE LET s1 == SetMusicPhase(s, "countdown")
           time == s1.c.countdownTime - dt
           next == IF time > 0 THEN CeilSeconds(time) ELSE 0
           s2 == [s1 EXCEPT !.c.countdownTime = time,
                            !.c.countdownShown = next]
       IN  IF time <= 0
           THEN SetMusicPhase(
                  [s2 EXCEPT !.c.countdownActive = FALSE,
                             !.c.playActive = TRUE, !.w = Start(s2.w)],
                  "play")
           ELSE s2

\* loop: the controls without the test of the phase
ThrustOfAnyPhase(s) ==
  LET pointerType == IF s.c.primaryPointerType # "none"
                     THEN s.c.primaryPointerType
                     ELSE s.c.lastPointerType
  IN  s.c.pressing /\ pointerType = "mouse"

\* loop: the thrust of this frame
ThrustOf(s) ==
  IF s.c.introActive \/ s.c.countdownActive \/ ~s.c.playActive \/ s.c.gameOver
  THEN FALSE
  ELSE LET pointerType == IF s.c.primaryPointerType # "none"
                          THEN s.c.primaryPointerType
                          ELSE s.c.lastPointerType
           allowAuto == pointerType = "mouse" \/ s.c.pressing
           targetY == lerp(PlayerYMin(s.w), PlayerYMax(s.w),
                           (s.c.pointerNdcY + Kilo) \div 2)
       IN  IF s.c.pressing /\ pointerType = "mouse" THEN TRUE
           ELSE IF allowAuto THEN targetY > s.w.y + AutoThrustMargin
           ELSE FALSE

\* loop: the controls and world.update()
WorldStep(s, dt) ==
  LET thrust == ThrustOf(s)
      s1 == SetMusicThrusting([s EXCEPT !.w = SetThrusting(s.w, thrust)],
                              thrust)
      s2 == [s1 EXCEPT !.w = Update(s1.w, dt)]
  IN  IF ~s2.c.gameOver /\ s2.w.state = "gameover"
      THEN SetMusicPhase(
             SetMusicThrusting(
               [s2 EXCEPT !.c.gameOver = TRUE, !.c.outroActive = TRUE,
                          !.c.outroElapsed = 0, !.c.pressing = FALSE,
                          !.c.primaryPointerType = "none",
                          !.c.primaryPointerId = 0,
                          !.w = SetThrusting(s2.w, FALSE)],
               FALSE),
             "outro")
      ELSE s2

\* loop: the outro
OutroStep(s, dt) ==
  IF ~s.c.outroActive THEN s
  ELSE LET s1 == [s EXCEPT !.c.outroElapsed = @ + dt]
       IN  IF s1.c.outroElapsed >= OutroDuration
           THEN SetMusicPhase([s1 EXCEPT !.c.outroActive = FALSE], "gameover")
           ELSE s1

\* loop, a frame of dt; perfScaler.frame() and music.frame() act on the
\* scaler and on the audio graph only
Loop(s, dt) ==
  LET s0 == [s EXCEPT !.c.rafPending = TRUE]
  IN  IF ~s0.c.loaded THEN s0
      ELSE OutroStep(WorldStep(CountdownStep(IntroStep(s0, dt), dt), dt), dt)

\* loop: what the intro branch calls; the camera is placed on the intro
\* curves, and finishIntroAndStartPlay() places it once more
IntroCalls(s, dt) ==
  IF ~s.c.introActive THEN <<>>
  ELSE <<"camera">> \o
       (IF s.c.introElapsed + dt >= IntroDuration THEN <<"camera">>
        ELSE <<>>)

\* loop: what the countdown branch calls
CountdownCalls(s, dt) ==
  IF s.c.introActive \/ ~s.c.countdownActive THEN <<>>
  ELSE <<"countdown">> \o
       (IF s.c.countdownTime - dt <= 0 THEN <<"world.start">> ELSE <<>>)

\* loop: what the branches after world.update() call: the outro dolly, the
\* poster view or the gameplay framing, each of which places the camera
PoseCalls(s) ==
  IF s.c.outroActive THEN <<"camera">>
  ELSE IF s.c.gameOver THEN <<"camera">>
  ELSE IF ~s.c.introActive THEN <<"camera">>
  ELSE <<>>

\* loop with the camera placed before world.update()
LoopCallsPoseFirst(s, dt) ==
  IF ~s.c.loaded THEN <<>>
  ELSE <<"perfScaler.frame", "music.frame", "camera", "world.update",
         "render">>

\* loop, a frame of dt: the calls it makes, in the order it makes them
LoopCalls(s, dt) ==
  LET s0 == [s EXCEPT !.c.rafPending = TRUE]
      s1 == IntroStep(s0, dt)
      s2 == CountdownStep(s1, dt)
      s3 == WorldStep(s2, dt)
  IN  IF ~s0.c.loaded THEN <<>>
      ELSE <<"perfScaler.frame", "music.frame">> \o IntroCalls(s0, dt) \o
           CountdownCalls(s1, dt) \o <<"world.update">> \o PoseCalls(s3) \o
           <<"render">>

\* begin(); the clock has just started, so its loop() has dt = 0
Begin(s) ==
  IF ~s.c.loaded \/ s.c.running THEN s
  ELSE Loop(
         SetMusicThrusting(
           SetMusicPhase(
             [s EXCEPT !.c.running = TRUE, !.c.introActive = TRUE,
                       !.c.introElapsed = 0, !.c.playActive = FALSE,
                       !.c.countdownActive = FALSE, !.c.countdownTime = 0,
                       !.c.countdownShown = 0, !.c.pressing = FALSE,
                       !.c.gameOver = FALSE, !.c.outroActive = FALSE,
                       !.c.outroElapsed = 0, !.c.pointerNdcY = 0,
                       !.w = Recenter(SetThrusting(s.w, FALSE))],
             "intro"),
           FALSE),
         0)

\* skipIntro()
SkipIntro(s) == FinishIntroAndStartPlay(s)

\* recenter() of the experience
ExperienceRecenter(s) ==
  IF ~s.c.loaded THEN s
  ELSE IF s.c.gameOver THEN [s EXCEPT !.c.introActive = FALSE]
  ELSE [s EXCEPT !.c.introActive = FALSE, !.w = Recenter(s.w)]

\* onPointerMove(e)
OnPointerMove(s, id, type, ndcY) ==
  IF s.c.gameOver /\ id \in s.c.posterPointers THEN s
  ELSE IF s.c.primaryPointerId # 0 /\ id # s.c.primaryPointerId THEN s
  ELSE [s EXCEPT !.c.lastPointerType = type, !.c.pointerNdcY = ndcY]

\* onPointerDown(e)
OnPointerDown(s, id, type, ndcY) ==
  IF ~s.c.running \/ ~s.c.loaded THEN s
  ELSE IF s.c.gameOver
  THEN IF s.c.outroActive THEN s
       ELSE [s EXCEPT !.c.posterPointers = @ \cup {id}]
  ELSE OnPointerMove([s EXCEPT !.c.pressing = TRUE,
                               !.c.primaryPointerType = type,
                               !.c.primaryPointerId = id,
                               !.w = Flap(s.w)],
                     id, type, ndcY)

\* onPointerUp(e), for pointerup and pointercancel
OnPointerUp(s, id, isPrimary) ==
  IF ~s.c.loaded THEN s
  ELSE IF id \in s.c.posterPointers
  THEN [s EXCEPT !.c.posterPointers = @ \ {id}]
  ELSE IF isPrimary \/ s.c.primaryPointerId = id
  THEN [s EXCEPT !.c.primaryPointerType = "none", !.c.primaryPointerId = 0,
                 !.c.pressing = FALSE]
  ELSE [s EXCEPT !.c.pressing = FALSE]

\* onBlur()
OnBlur(s) ==
  SetMusicThrusting(
    [s EXCEPT !.c.pressing = FALSE, !.c.primaryPointerType = "none",
              !.c.primaryPointerId = 0, !.c.posterPointers = {},
              !.w = IF s.c.loaded THEN SetThrusting(s.w, FALSE) ELSE s.w],
    FALSE)

(***************************************************************************)
(* scene/WinterMysticExperience.ts: the poster view.  Lengths of the scene *)
(* are in 1/1000, pixels in pixels, angles in 1/1000 radian, the zoom and  *)
(* the aspect of the camera in 1/1000.                                     *)
(***************************************************************************)
PosterHeight == 1380          \* a4Height = 1.38
PosterWidth == (PosterHeight * 210) \div 297
PosterFill == 9               \* fill = 0.9, in tenths
ZoomMin == 1000               \* clamp(posterZoom, 1, 6)
ZoomMax == 6000
YawMax == 1150                \* clamp(posterYaw, -1.15, 1.15)
PitchMax == 850               \* clamp(posterPitch, -0.85, 0.85)
RotPerPx == 5                 \* rotPerPx = 0.005
TwistPerMille == 650          \* dAng * 0.65
Pi == 3142                    \* Math.PI
CanvasHeight == 8 * 100          \* the height of the canvas, in pixels

NoGesture ==
  [mode |-> "none", lastX |-> 0, lastY |-> 0, lastDist |-> 0, lastAngle |-> 0]

\* the fields of the poster view as the constructor leaves them; the map of
\* the pointers is kept in the order of insertion, as a Map iterates
NewPoster ==
  [panX |-> 0, panY |-> 0, zoom |-> ZoomMin, yaw |-> 0, pitch |-> 0,
   gesture |-> NoGesture, pointers |-> <<>>, aspect |-> Kilo]

\* rect.width of the canvas
RectWidth(q) == (CanvasHeight * q.aspect) \div Kilo

\* visibleH = 2 * dist * tan(fov / 2) with dist = posterBaseDistance / zoom
\* and posterBaseDistance = (posterHeight / fill) / (2 * tan(fov / 2))
VisibleH(q) ==
  (PosterHeight * 10 * Kilo) \div (PosterFill * clamp(q.zoom, ZoomMin, ZoomMax))

VisibleW(q) == (VisibleH(q) * q.aspect) \div Kilo

MaxPanX(q) == Max(0, PosterWidth \div 2 - VisibleW(q) \div 2)
MaxPanY(q) == Max(0, PosterHeight \div 2 - VisibleH(q) \div 2)

\* Math.hypot(dx, dy), rounded down
Hypot(dx, dy) ==
  CHOOSE r \in 0..(2 * CanvasHeight) :
    r * r <= dx * dx + dy * dy /\ (r + 1) * (r + 1) > dx * dx + dy * dy

\* Math.atan2(dy, dx) for the directions between the points of the model
Atan2(dy, dx) ==
  CASE dy = 0 /\ dx >= 0 -> 0
    [] dy = 0 /\ dx < 0 -> Pi
    [] dx = 0 /\ dy > 0 -> Pi \div 2
    [] dx = 0 /\ dy < 0 -> -(Pi \div 2)
    [] dx > 0 /\ dy > 0 -> 983
    [] dx > 0 /\ dy < 0 -> -983
    [] dx < 0 /\ dy > 0 -> Pi - 983
    [] dx < 0 /\ dy < 0 -> 983 - Pi

\* Math.exp(-deltaY * 0.0012), in 1/1000, for the wheel steps of the model
WheelFactor(deltaY) ==
  CASE deltaY = -600 -> 2054 [] deltaY = 600 -> 487 [] OTHER -> Kilo

\* resetPosterView()
ResetPosterView(q) ==
  [q EXCEPT !.panX = 0, !.panY = 0, !.zoom = ZoomMin, !.yaw = 0, !.pitch = 0]

\* resetPosterGesture()
ResetPosterGesture(q) == [q EXCEPT !.gesture = NoGesture]

\* applyPosterViewPose() without the clamp of the pan
ApplyPosterViewPoseFree(q) == q

\* applyPosterViewPose(): the clamp of the pan
ApplyPosterViewPose(q) ==
  [q EXCEPT !.panX = clamp(q.panX, -MaxPanX(q), MaxPanX(q)),
            !.panY = clamp(q.panY, -MaxPanY(q), MaxPanY(q))]

\* posterPointers.has(id)
HasPointer(q, id) == \E i \in 1..Len(q.pointers) : q.pointers[i].id = id

\* posterPointers.set(id, p): in place for a key of the map, else at its end
SetPointer(q, p) ==
  IF HasPointer(q, p.id)
  THEN [q EXCEPT !.pointers =
          [i \in 1..Len(@) |-> IF @[i].id = p.id THEN p ELSE @[i]]]
  ELSE [q EXCEPT !.pointers = Append(@, p)]

\* posterPointers.delete(id)
DeletePointer(q, id) ==
  [q EXCEPT !.pointers = SelectSeq(@, LAMBDA p : p.id # id)]

\* applyPosterGesture(): one pointer, dragging; the first call after the
\* gesture was reset only notes where the pointer is
DragGesture(q, p) ==
  IF q.gesture.mode # p.mode
  THEN [q EXCEPT !.gesture = [NoGesture EXCEPT !.mode = p.mode,
                                               !.lastX = p.x, !.lastY = p.y]]
  ELSE LET dx == p.x - q.gesture.lastX
           dy == p.y - q.gesture.lastY
           q1 == [q EXCEPT !.gesture.lastX = p.x, !.gesture.lastY = p.y]
       IN  IF p.mode = "pan"
           THEN ApplyPosterViewPose(
                  [q1 EXCEPT
                     !.panX = @ - (dx * VisibleW(q)) \div RectWidth(q),
                     !.panY = @ + (dy * VisibleH(q)) \div CanvasHeight])
           ELSE ApplyPosterViewPose(
                  [q1 EXCEPT
                     !.yaw = clamp(@ - dx * RotPerPx, -YawMax, YawMax),
                     !.pitch = clamp(@ - dy * RotPerPx, -PitchMax, PitchMax)])

\* applyPosterGesture(): two pointers or more, the first two pinching
PinchGesture(q, a, b) ==
  LET cx == (a.x + b.x) \div 2
      cy == (a.y + b.y) \div 2
      d == Max(1, Hypot(a.x - b.x, a.y - b.y))
      ang == Atan2(b.y - a.y, b.x - a.x)
  IN  IF q.gesture.mode # "pinch"
      THEN [q EXCEPT !.gesture = [mode |-> "pinch", lastX |-> cx,
                                  lastY |-> cy, lastDist |-> d,
                                  lastAngle |-> ang]]
      ELSE LET dx == cx - q.gesture.lastX
               dy == cy - q.gesture.lastY
               turn == ang - q.gesture.lastAngle
               dAng == IF turn > Pi THEN turn - 2 * Pi
                       ELSE IF turn < -Pi THEN turn + 2 * Pi ELSE turn
           IN  ApplyPosterViewPose(
                 [q EXCEPT
                    !.gesture = [mode |-> "pinch", lastX |-> cx,
                                 lastY |-> cy, lastDist |-> d,
                                 lastAngle |-> ang],
                    !.zoom = clamp((@ * d) \div q.gesture.lastDist,
                                   ZoomMin, ZoomMax),
                    !.panX = @ - (dx * VisibleW(q)) \div RectWidth(q),
                    !.panY = @ + (dy * VisibleH(q)) \div CanvasHeight,
                    !.yaw = clamp(@ + (dAng * TwistPerMille) \div Kilo,
                                  -YawMax, YawMax)])

\* applyPosterGesture()
ApplyPosterGesture(q, outroActive) ==
  IF outroActive \/ RectWidth(q) = 0 THEN q
  ELSE IF Len(q.pointers) = 0 THEN ResetPosterGesture(q)
  ELSE IF Len(q.pointers) = 1 THEN DragGesture(q, q.pointers[1])
  ELSE PinchGesture(q, q.pointers[1], q.pointers[2])

\* onPointerDown(e) in the poster view, keeping the gesture
PosterDownKeepsGesture(q, id, x, y, button) ==
  SetPointer(q, [id |-> id, x |-> x, y |-> y,
                 mode |-> IF button = 2 THEN "pan" ELSE "rotate"])

\* onPointerDown(e) in the poster view: button 2 pans, any other rotates
PosterDown(q, id, x, y, button) ==
  ResetPosterGesture(
    SetPointer(q, [id |-> id, x |-> x, y |-> y,
                   mode |-> IF button = 2 THEN "pan" ELSE "rotate"]))

\* onPointerUp(e) for a pointer of the poster view
PosterUp(q, id) ==
  IF HasPointer(q, id) THEN ResetPosterGesture(DeletePointer(q, id)) ELSE q

\* onBlur(): the part of the poster view
PosterBlur(q) == ResetPosterGesture([q EXCEPT !.pointers = <<>>])

\* onPointerMove(e) for a pointer of the poster view
PosterMove(q, id, x, y, outroActive) ==
  IF ~HasPointer(q, id) THEN q
  ELSE LET prev == CHOOSE p \in {q.pointers[i] : i \in 1..Len(q.pointers)} :
                     p.id = id
       IN  ApplyPosterGesture(
             SetPointer(q, [id |-> id, x |-> x, y |-> y, mode |-> prev.mode]),
             outroActive)

\* onWheel(e), once past its guard
OnWheel(q, deltaY) ==
  ApplyPosterViewPose(
    [q EXCEPT !.zoom = clamp((@ * WheelFactor(deltaY)) \div Kilo,
                             ZoomMin, ZoomMax)])

\* resize(): camera.aspect, and the pose of the poster view
Resize(q, aspect, gameOver) ==
  IF gameOver THEN ApplyPosterViewPose([q EXCEPT !.aspect = aspect])
  ELSE [q EXCEPT !.aspect = aspect]

(***************************************************************************)
(* The callers of the experience: animation frames, pointer events and the *)
(* calls of its methods.                                                   *)
(***************************************************************************)
MaxSkips == 1        \* calls of skipIntro()
MaxCtlRecenters == 1 \* calls of recenter()
MaxPointers == 2     \* pointer events
MaxBlurs == 1        \* blur events
EventWindow == 150   \* events arrive this long (ms) into a phase, at most

PointerIds == {1}
PointerTypes == {"mouse", "touch"}
PointerNdcYs == {-Kilo, Kilo}     \* the bottom and the top of the canvas

NoBudget == [skips |-> 0, recenters |-> 0, pointers |-> 0, blurs |-> 0,
             gestures |-> 0, disposals |-> 0, resizes |-> 0, moves |-> 0,
             wheels |-> 0, mutes |-> 0]

\* the experience once preload() has returned
Preloaded(c) ==
  [c EXCEPT !.preload = "done", !.loaded = TRUE, !.listening = TRUE]

Now == Sys(ctl, world, reported)

Becomes(s) ==
  /\ ctl' = s.c
  /\ world' = s.w
  /\ reported' = s.log

\* the time for which the current phase of the controller has lasted is
\* within the window; the poster view, where nothing moves, is always
Attentive ==
  IF ctl.introActive THEN ctl.introElapsed < EventWindow
  ELSE IF ctl.countdownActive
  THEN ctl.countdownTime > CountdownFrom - EventWindow
  ELSE IF ctl.outroActive THEN ctl.outroElapsed < EventWindow
  ELSE IF world.state = "playing" THEN world.playElapsed < EventWindow
  ELSE IF world.state = "escape" THEN world.escapeElapsed < EventWindow
  ELSE TRUE

CtlInit ==
  /\ ctl = Preloaded([NewExperience EXCEPT !.gpu = 1])
  /\ reported = <<>>
  /\ budget = [NoBudget EXCEPT !.skips = MaxSkips,
                               !.recenters = MaxCtlRecenters,
                               !.pointers = MaxPointers, !.blurs = MaxBlurs]
  /\ poster = NewPoster
  /\ world = NewWorld("thrust")
  /\ held = NotHeld
  /\ left = [starts |-> 0, flaps |-> 0, toggles |-> 0, recenters |-> 0,
             frames |-> 0]
  /\ frameDt = DtCap

CtlAtRest ==
  /\ ctl = NewExperience
  /\ reported = <<>>
  /\ budget = NoBudget
  /\ poster = NewPoster

CtlBegin ==
  /\ ~ctl.running
  /\ Becomes(Begin(Now))
  /\ UNCHANGED budget

CtlFrame ==
  /\ ctl.rafPending
  /\ Becomes(Loop(Now, DtCap))
  /\ UNCHANGED budget

CtlPointerDown ==
  /\ ctl.listening
  /\ Attentive
  /\ budget.pointers > 0
  /\ \E id \in PointerIds, type \in PointerTypes, ndcY \in PointerNdcYs :
       Becomes(OnPointerDown(Now, id, type, ndcY))
  /\ budget' = [budget EXCEPT !.pointers = @ - 1]

CtlPointerMove ==
  /\ ctl.listening
  /\ Attentive
  /\ budget.pointers > 0
  /\ \E id \in PointerIds, type \in PointerTypes, ndcY \in PointerNdcYs :
       Becomes(OnPointerMove(Now, id, type, ndcY))
  /\ budget' = [budget EXCEPT !.pointers = @ - 1]

CtlPointerUp ==
  /\ ctl.listening
  /\ Attentive
  /\ budget.pointers > 0
  /\ \E id \in PointerIds : Becomes(OnPointerUp(Now, id, TRUE))
  /\ budget' = [budget EXCEPT !.pointers = @ - 1]

CtlBlur ==
  /\ ctl.listening
  /\ Attentive
  /\ budget.blurs > 0
  /\ Becomes(OnBlur(Now))
  /\ budget' = [budget EXCEPT !.blurs = @ - 1]

CtlRecenter ==
  /\ ctl.running
  /\ Attentive
  /\ budget.recenters > 0
  /\ Becomes(ExperienceRecenter(Now))
  /\ budget' = [budget EXCEPT !.recenters = @ - 1]

CtlSkipIntro ==
  /\ ctl.running
  /\ Attentive
  /\ budget.skips > 0
  /\ Becomes(SkipIntro(Now))
  /\ budget' = [budget EXCEPT !.skips = @ - 1]


(***************************************************************************)
(* The fingers of a touch screen during play: several pointers go down on  *)
(* the canvas and up again, between the animation frames.                  *)
(***************************************************************************)
MaxTouches == 4      \* pointerdown, pointerup and pointercancel events

TouchIds == {1, 2}

\* no pointer is down
NoTouch == [down |-> {}, primary |-> 0]

TouchAtRest == touch = NoTouch

\* the flight is on
Flying == ctl.playActive /\ ~ctl.countdownActive /\ ~ctl.gameOver

\* a finger goes down on the canvas; it is the primary pointer if no other
\* is down
TouchDown ==
  /\ ctl.listening /\ Flying /\ Attentive
  /\ budget.pointers > 0
  /\ \E id \in TouchIds \ touch.down, ndcY \in PointerNdcYs :
       /\ Becomes(OnPointerDown(Now, id, "touch", ndcY))
       /\ touch' = [down |-> touch.down \cup {id},
                    primary |-> IF touch.down = {} THEN id
                                ELSE touch.primary]
  /\ budget' = [budget EXCEPT !.pointers = @ - 1]

\* a finger that is down goes up, or its pointer is cancelled
TouchUp ==
  /\ ctl.listening /\ Flying /\ Attentive
  /\ budget.pointers > 0
  /\ \E id \in touch.down :
       /\ Becomes(OnPointerUp(Now, id, id = touch.primary))
       /\ touch' = [down |-> touch.down \ {id},
                    primary |-> IF id = touch.primary THEN 0
                                ELSE touch.primary]
  /\ budget' = [budget EXCEPT !.pointers = @ - 1]

(***************************************************************************)
(* The poster view and its callers: the controller after a flight that     *)
(* nobody touched, then pointer, wheel, blur and resize events, recenter() *)
(* and animation frames.                                                   *)
(***************************************************************************)
MaxPosterDowns == 2   \* pointerdown events
MaxPosterMoves == 2   \* pointermove events
MaxPosterWheels == 1  \* wheel events
MaxPosterResizes == 1 \* resize events
MaxPosterEvents == 4  \* events in the poster view, of all kinds

PosterPointerIds == {1, 2}
PosterPoints == {<<100, 400>>, <<300, 400>>, <<300, 100>>}  \* clientX, clientY
PosterButtons == {0, 2}
WheelDeltas == {-600, 600}
PosterAspects == {Kilo \div 2, (3 * Kilo) \div 2}   \* portrait, landscape

\* preload() and begin(): the frames of an untouched flight lead from here
\* to the game over, the outro and the poster view
PosterViewReached ==
  Begin(Sys(Preloaded([NewExperience EXCEPT !.gpu = 1]),
            NewWorld("thrust"), <<>>))

\* onPointerDown() takes the pointer into the poster view
TakesPosterPointer ==
  ctl.running /\ ctl.loaded /\ ctl.gameOver /\ ~ctl.outroActive

PosterInit ==
  /\ ctl = PosterViewReached.c
  /\ world = PosterViewReached.w
  /\ reported = PosterViewReached.log
  /\ \E aspect \in PosterAspects :
       poster = [ResetPosterView(NewPoster) EXCEPT !.aspect = aspect]
  /\ budget = [NoBudget EXCEPT !.pointers = MaxPosterDowns,
                               !.moves = MaxPosterMoves,
                               !.wheels = MaxPosterWheels,
                               !.resizes = MaxPosterResizes,
                               !.recenters = MaxCtlRecenters,
                               !.blurs = MaxBlurs]
  /\ held = NotHeld
  /\ left = [starts |-> 0, flaps |-> 0, toggles |-> 0, recenters |-> 0,
             frames |-> 0]
  /\ frameDt = DtCap

PosterAtRest == poster = NewPoster

\* the events that have arrived in the poster view are fewer than the bound
PosterEventsLeft ==
  (MaxPosterDowns - budget.pointers) + (MaxPosterMoves - budget.moves)
    + (MaxPosterWheels - budget.wheels) + (MaxPosterResizes - budget.resizes)
    + (MaxCtlRecenters - budget.recenters) + (MaxBlurs - budget.blurs)
    < MaxPosterEvents

PosterFrame ==
  /\ ctl.rafPending
  /\ Becomes(Loop(Now, DtCap))
  /\ poster' = IF ~ctl.loaded THEN poster
               ELSE IF ~ctl.gameOver /\ ctl'.gameOver
               THEN ResetPosterView(poster)
               ELSE IF ctl.gameOver /\ ~ctl.outroActive
               THEN ApplyPosterViewPose(poster)
               ELSE poster
  /\ UNCHANGED budget

PosterPointerDown ==
  /\ ctl.listening
  /\ ctl.gameOver /\ Attentive /\ PosterEventsLeft
  /\ budget.pointers > 0
  /\ \E id \in PosterPointerIds, at \in PosterPoints, button \in PosterButtons :
       /\ Becomes(OnPointerDown(Now, id, "mouse", 0))
       /\ poster' = IF TakesPosterPointer
                    THEN PosterDown(poster, id, at[1], at[2], button)
                    ELSE poster
  /\ budget' = [budget EXCEPT !.pointers = @ - 1]

PosterPointerMove ==
  /\ ctl.listening
  /\ ctl.gameOver /\ Attentive /\ PosterEventsLeft
  /\ budget.moves > 0
  /\ \E id \in PosterPointerIds, at \in PosterPoints :
       /\ Becomes(OnPointerMove(Now, id, "mouse", 0))
       /\ poster' = IF ctl.gameOver
                    THEN PosterMove(poster, id, at[1], at[2], ctl.outroActive)
                    ELSE poster
  /\ budget' = [budget EXCEPT !.moves = @ - 1]

PosterPointerUp ==
  /\ ctl.listening
  /\ \E id \in PosterPointerIds :
       /\ HasPointer(poster, id)
       /\ Becomes(OnPointerUp(Now, id, TRUE))
       /\ poster' = PosterUp(poster, id)
  /\ UNCHANGED budget

PosterBlurEvent ==
  /\ ctl.listening
  /\ ctl.gameOver /\ Attentive /\ PosterEventsLeft
  /\ budget.blurs > 0
  /\ Becomes(OnBlur(Now))
  /\ poster' = PosterBlur(poster)
  /\ budget' = [budget EXCEPT !.blurs = @ - 1]

PosterWheelEvent ==
  /\ ctl.listening
  /\ ctl.gameOver /\ Attentive /\ PosterEventsLeft
  /\ budget.wheels > 0
  /\ \E deltaY \in WheelDeltas :
       poster' = IF ~ctl.gameOver \/ ctl.outroActive \/ ~ctl.loaded
                 THEN poster ELSE OnWheel(poster, deltaY)
  /\ budget' = [budget EXCEPT !.wheels = @ - 1]
  /\ UNCHANGED <<ctl, world, reported>>

\* onResize() and the animation frame in which resize() runs
PosterResize ==
  /\ ctl.listening
  /\ ctl.gameOver /\ Attentive /\ PosterEventsLeft
  /\ budget.resizes > 0
  /\ \E aspect \in PosterAspects \ {poster.aspect} :
       poster' = Resize(poster, aspect, ctl.gameOver)
  /\ budget' = [budget EXCEPT !.resizes = @ - 1]
  /\ UNCHANGED <<ctl, world, reported>>

PosterRecenter ==
  /\ ctl.running
  /\ ctl.gameOver /\ Attentive /\ PosterEventsLeft
  /\ budget.recenters > 0
  /\ Becomes(ExperienceRecenter(Now))
  /\ poster' = IF ctl.loaded /\ ctl.gameOver
               THEN ApplyPosterViewPose(ResetPosterView(poster)) ELSE poster
  /\ budget' = [budget EXCEPT !.recenters = @ - 1]

(***************************************************************************)
(* scene/world/posterTexture.ts and AmbientAudio.loadWithFallback():       *)
(* the poster and the ambient audio, from a URL or generated               *)
(***************************************************************************)

\* how the load of one URL ends: loaded and decoded, the request fails, the
\* response is not OK, the content cannot be decoded
LoadOutcomes == {"ok", "network", "status", "decode"}

Loadables == {"poster", "audio"}

\* tryLoadPosterFromPublic(url): TextureLoader calls onLoad, or onError for
\* any failure, and onError resolves with null
TryLoadPosterFromPublic(outcome) ==
  IF outcome = "ok" THEN "file" ELSE "null"

\* tryLoadAudioFile(ctx, url) without its catch: fetch() and
\* decodeAudioData() throw, a response that is not OK returns null
TryLoadAudioFileUncaught(outcome) ==
  CASE outcome = "ok" -> "file"
    [] outcome = "status" -> "null"
    [] outcome \in {"network", "decode"} -> "throws"

\* tryLoadAudioFile(ctx, url)
TryLoadAudioFile(outcome) ==
  CASE outcome = "ok" -> "file"
    [] outcome = "status" -> "null"
    [] outcome \in {"network", "decode"} -> "null"   \* catch { return null }

TryLoad(what, outcome) ==
  IF what = "poster" THEN TryLoadPosterFromPublic(outcome)
  ELSE TryLoadAudioFile(outcome)

\* generatePosterCanvasTexture(): throws when the canvas gives no 2D context
GeneratePosterCanvasTexture(canvas2d) ==
  IF canvas2d THEN "generated" ELSE "throws"

\* createAmbientBuffer(ctx, 8)
CreateAmbientBuffer == "generated"

Generate(what, canvas2d) ==
  IF what = "poster" THEN GeneratePosterCanvasTexture(canvas2d)
  ELSE CreateAmbientBuffer

\* no load under way
NoAssets ==
  [what |-> "poster", envSet |-> FALSE, envOutcome |-> "ok",
   defaultOutcome |-> "ok", canvas2d |-> TRUE, pc |-> "idle",
   tried |-> <<>>, result |-> "none"]

AssetsAtRest == assets = NoAssets

\* what is loaded, whether the env URL is set, how each URL would end and
\* whether a 2D canvas context is to be had
AssetsInit ==
  \E what \in Loadables, envSet \in BOOLEAN, canvas2d \in BOOLEAN,
     envOutcome \in LoadOutcomes, defaultOutcome \in LoadOutcomes :
    assets = [NoAssets EXCEPT !.what = what, !.envSet = envSet,
                              !.canvas2d = canvas2d,
                              !.envOutcome = envOutcome,
                              !.defaultOutcome = defaultOutcome]

\* the promise settles: with a file, with generated content, or rejected
AssetsSettled(a, r) ==
  IF r = "throws" THEN [a EXCEPT !.pc = "rejected"]
  ELSE [a EXCEPT !.pc = "done", !.result = r]

\* createPosterTexture() / loadWithFallback() up to the first await
LoadBegins ==
  /\ assets.pc = "idle"
  /\ assets' = IF assets.envSet
               THEN [assets EXCEPT !.pc = "env", !.tried = <<"env">>]
               ELSE [assets EXCEPT !.pc = "default", !.tried = <<"default">>]

\* the load of the env URL has ended
EnvLoadSettles ==
  /\ assets.pc = "env"
  /\ LET r == TryLoad(assets.what, assets.envOutcome)
     IN  assets' = IF r = "null"
                   THEN [assets EXCEPT !.pc = "default",
                                       !.tried = Append(@, "default")]
                   ELSE AssetsSettled(assets, r)

\* the load of the default path has ended
DefaultLoadSettles ==
  /\ assets.pc = "default"
  /\ LET r == TryLoad(assets.what, assets.defaultOutcome)
     IN  assets' = IF r = "null"
                   THEN AssetsSettled(assets,
                                      Generate(assets.what, assets.canvas2d))
                   ELSE AssetsSettled(assets, r)

(***************************************************************************)
(* AmbientAudio.createAmbientBuffer(): the generated loop and the          *)
(* crossfade of its seam                                                   *)
(***************************************************************************)

Bpm == 155                         \* bpm = 155
StepsPerBar16 == 16                \* stepsPerBar16 = 16

\* step16Samples = Math.max(1, Math.round((sr * 60) / (bpm * 4)))
Step16Samples(sr) == Max(1, (2 * sr * 60 + Bpm * 4) \div (2 * Bpm * 4))

\* length = total16 * step16Samples
BufferLength(sr, bars) == StepsPerBar16 * bars * Step16Samples(sr)

\* seam = Math.max(1, Math.min(length, Math.floor(sr * 0.05)))
Seam(sr, bars) == Max(1, Min(BufferLength(sr, bars), sr \div 20))

\* Math.sin(a * (Math.PI / 2)) and Math.cos(a * (Math.PI / 2)) for
\* a = i / Math.max(1, seam - 1), in 1/1000, for the seams of the model
SinQuarter(i, seam) ==
  LET den == Max(1, seam - 1)
  IN  CASE i = 0 -> 0
        [] i = den -> Kilo
        [] 2 * i = den -> 707
        [] 3 * i = den -> 500
        [] 3 * i = 2 * den -> 866

CosQuarter(i, seam) ==
  LET den == Max(1, seam - 1)
  IN  CASE i = 0 -> Kilo
        [] i = den -> 0
        [] 2 * i = den -> 707
        [] 3 * i = den -> 866
        [] 3 * i = 2 * den -> 500

\* one pass of the crossfade loop that stores m at data[i] only
CrossfadeHeadOnly(data, i, length, seam) ==
  LET m == (data[i] * SinQuarter(i, seam)
              + data[length - seam + i] * CosQuarter(i, seam)) \div Kilo
  IN  [data EXCEPT ![i] = m]

\* one pass of the crossfade loop: m = s0 * wIn + s1 * wOut, stored at
\* data[i] and then at data[length - seam + i]
Crossfade(data, i, length, seam) ==
  LET m == (data[i] * SinQuarter(i, seam)
              + data[length - seam + i] * CosQuarter(i, seam)) \div Kilo
  IN  [[data EXCEPT ![i] = m] EXCEPT ![length - seam + i] = m]

\* the sample rates of the model: seams of 1, 1, 2 and 3 samples
SampleRates == {1, 20, 40, 60}

BufferBars == 1                    \* bars, kept short
SampleValues == {-950, 950}        \* the clamp of a sample, in 1/1000

\* no buffer is being made
NoBuffer == [sr |-> 0, data |-> <<>>, ch |-> 0, i |-> 0, pc |-> "idle"]

BufferAtRest == buffer = NoBuffer

\* the buffer when the samples of both channels are written: the first and
\* the last seam samples are any, the ones between are silent
BufferInit ==
  \E sr \in SampleRates :
    LET length == BufferLength(sr, BufferBars)
        seam == Seam(sr, BufferBars)
        Edge == (0..(seam - 1)) \cup ((length - seam)..(length - 1))
    IN  \E head \in [{0, 1} -> [Edge -> SampleValues]] :
          buffer = [sr |-> sr,
                    data |-> [ch \in {0, 1} |->
                                [k \in 0..(length - 1) |->
                                   IF k \in Edge THEN head[ch][k] ELSE 0]],
                    ch |-> 0, i |-> 0, pc |-> "crossfade"]

\* for (let i = 0; i < seam; i++) { ... } of the channel ch
CrossfadePass ==
  /\ buffer.pc = "crossfade"
  /\ buffer.i < Seam(buffer.sr, BufferBars)
  /\ buffer' = [buffer EXCEPT
                  !.data[buffer.ch] =
                     Crossfade(@, buffer.i,
                               BufferLength(buffer.sr, BufferBars),
                               Seam(buffer.sr, BufferBars)),
                  !.i = @ + 1]

\* the crossfade of a channel is over: the next channel, or return buffer
NextChannel ==
  /\ buffer.pc = "crossfade"
  /\ buffer.i >= Seam(buffer.sr, BufferBars)
  /\ buffer' = IF buffer.ch = 0
               THEN [buffer EXCEPT !.ch = 1, !.i = 0]
               ELSE [buffer EXCEPT !.pc = "done"]

(***************************************************************************)
(* AmbientAudio.setPhase(), frame() and scheduleAcid(): the acid stabs of  *)
(* the generated loop; times in microseconds of ctx.currentTime            *)
(***************************************************************************)

Mega == Kilo * Kilo

Step16 == (60 * Mega) \div (Bpm * 4)     \* step = 60 / bpm / 4
Lookahead == 160 * Kilo                  \* lookahead = 0.16
StepLead == 50 * Kilo                    \* ctx.currentTime + 0.05

\* acidPatternSemitones, <<>> for null
AcidPatternSemitones ==
  << <<0>>, <<>>, <<>>, <<>>, <<12>>, <<>>, <<3>>, <<>>,
     <<>>, <<>>, <<5>>, <<>>, <<0>>, <<>>, <<-2>>, <<>>,
     <<>>, <<>>, <<0>>, <<>>, <<12>>, <<>>, <<>>, <<>>,
     <<3>>, <<>>, <<>>, <<>>, <<5>>, <<>>, <<>>, <<>>,
     <<0>>, <<>>, <<>>, <<>>, <<12>>, <<>>, <<3>>, <<>>,
     <<>>, <<>>, <<5>>, <<>>, <<0>>, <<>>, <<-2>>, <<>>,
     <<>>, <<>>, <<>>, <<>>, <<12>>, <<>>, <<>>, <<>>,
     <<3>>, <<>>, <<>>, <<>>, <<5>>, <<>>, <<>>, <<>> >>

MusicPhases == {"intro", "countdown", "play", "outro", "gameover"}

\* no sequencer: start() has not run
NoAcid ==
  [isGenerated |-> FALSE, phase |-> "intro", now |-> 0, nextStepTime |-> 0,
   stepIndex |-> 0, steps |-> <<>>, framed |-> FALSE, frames |-> 0,
   phases |-> 0]

AcidAtRest == acid = NoAcid

\* setPhase(phase), the context made: "play" starts the pattern again
SetPhase(a, phase) ==
  IF phase = "play"
  THEN [a EXCEPT !.phase = phase, !.nextStepTime = a.now + StepLead,
                 !.stepIndex = 0, !.steps = <<>>, !.framed = FALSE]
  ELSE [a EXCEPT !.phase = phase]

\* the while loop of scheduleAcid() that passes one step only
ScheduleOneStep(a) ==
  IF a.nextStepTime >= a.now + Lookahead THEN a
  ELSE LET idx == a.stepIndex % Len(AcidPatternSemitones)
       IN  [a EXCEPT
              !.steps = Append(@, [step |-> a.stepIndex, at |-> a.nextStepTime,
                                   now |-> a.now,
                                   stab |-> AcidPatternSemitones[idx + 1]
                                              # <<>>]),
              !.stepIndex = @ + 1, !.nextStepTime = @ + Step16]

\* the while loop of scheduleAcid(): the steps before now + lookahead, each
\* noted with the time it is scheduled at and the time of the frame
RECURSIVE ScheduleSteps(_)
ScheduleSteps(a) ==
  IF a.nextStepTime >= a.now + Lookahead THEN a
  ELSE LET idx == a.stepIndex % Len(AcidPatternSemitones)
       IN  ScheduleSteps(
             [a EXCEPT
                !.steps = Append(@, [step |-> a.stepIndex,
                                     at |-> a.nextStepTime, now |-> a.now,
                                     stab |-> AcidPatternSemitones[idx + 1]
                                                # <<>>]),
                !.stepIndex = @ + 1, !.nextStepTime = @ + Step16])

\* scheduleAcid(now, energy)
ScheduleAcid(a) ==
  IF ~a.isGenerated THEN a
  ELSE IF a.phase # "play" THEN a
  ELSE [ScheduleSteps(a) EXCEPT !.framed = TRUE]

MaxAcidFrames == 5    \* calls of frame()
MaxAcidPhases == 3    \* calls of setPhase()

\* ctx.currentTime from one frame() to the next: 60 and 20 frames a
\* second, and a stall
AcidGaps == {16667, 50 * Kilo, 400 * Kilo}

\* start() has returned: the buffer is the generated loop or a file, the
\* phase is the one set before, the pattern is at its start
AcidInit ==
  \E isGenerated \in BOOLEAN, phase \in MusicPhases :
    acid = [NoAcid EXCEPT !.isGenerated = isGenerated, !.phase = phase,
                          !.nextStepTime = StepLead,
                          !.frames = MaxAcidFrames, !.phases = MaxAcidPhases]

\* frame(dt, t) at a later ctx.currentTime
AcidFrame ==
  /\ acid.frames > 0
  /\ \E lapse \in AcidGaps :
       acid' = ScheduleAcid([acid EXCEPT !.now = @ + lapse, !.frames = @ - 1])

\* setPhase(phase)
AcidSetPhase ==
  /\ acid.phases > 0
  /\ \E phase \in MusicPhases :
       acid' = SetPhase([acid EXCEPT !.phases = @ - 1], phase)

(***************************************************************************)
(* ui/overlay.ts, audio/AmbientAudio.ts and runtime/createApp.ts: the      *)
(* overlay, the start of the audio, and the app that ties them to the      *)
(* experience.                                                             *)
(***************************************************************************)
\* the overlay as createOverlayUI leaves it, after setStatus("loading")
\* readies counts the times the status has become "ready"
NewOverlay ==
  [status |-> "loading", enterDisabled |-> TRUE, keydown |-> TRUE,
   disposed |-> FALSE, readies |-> 0]

GeneratedGain == 400     \* baseGain = 0.4
FileGain == 260          \* baseGain = 0.26

\* the two versions of AmbientAudio: the one that keeps baseGain, and the
\* one whose toggleMuted() writes 0.4
AudioVersions == {"baseGain", "literal"}

\* ctx: the context and the nodes made before the buffer is loaded (master
\* gain, compressor, filter) are held; nodes: the source and the nodes made
\* after the load are held; closed: the context last made has been closed;
\* released: dispose() has been called and start() not since; gain: the
\* gain of the master gain node last made
NewAudio ==
  [ctx |-> FALSE, playing |-> FALSE, phase |-> "intro", pc |-> "idle",
   starts |-> 0, version |-> "baseGain", nodes |-> FALSE, closed |-> FALSE,
   released |-> FALSE, muted |-> FALSE, gain |-> 0,
   baseGain |-> GeneratedGain, kind |-> "none"]

NewApp == [started |-> FALSE, disposed |-> FALSE]

\* again: the enter button or an enter key has been pressed while the
\* status was "running"
NothingSeen == [last |-> "none", disposed |-> FALSE, again |-> FALSE]

\* setStatus(next): the status, and whether the enter button is disabled
SetStatus(o, next) ==
  [o EXCEPT !.status = next,
            !.readies = IF next = "ready" /\ o.status # "ready"
                        THEN @ + 1 ELSE @,
            !.enterDisabled = CASE next \in {"loading", "error"} -> TRUE
                                [] next = "ready" -> FALSE
                                [] OTHER -> @]

\* AmbientAudio.start(), up to its first await
AudioStart(au) ==
  IF au.ctx
  THEN [au EXCEPT !.pc = "resumingOnly", !.starts = @ + 1,
                  !.released = FALSE]
  ELSE [au EXCEPT !.ctx = TRUE, !.pc = "loading", !.starts = @ + 1,
                  !.released = FALSE, !.closed = FALSE, !.kind = "none",
                  !.baseGain = GeneratedGain,
                  !.gain = IF au.muted THEN 0 ELSE GeneratedGain]

\* start(), from the buffer loaded to the await of ctx.resume(): the source
\* and the nodes behind it are made and stored, whatever dispose() did;
\* resume() of a context already closed rejects, which ends start()
LoadSettled(au, kind) ==
  LET base == IF kind = "file" /\ au.version = "baseGain"
              THEN FileGain ELSE au.baseGain
  IN  [au EXCEPT !.pc = IF au.closed THEN "idle" ELSE "resuming",
                 !.kind = kind, !.nodes = TRUE,
                 !.baseGain = base,
                 !.gain = IF kind # "file" THEN @
                          ELSE IF au.muted THEN 0 ELSE FileGain]

\* whether the pending ctx.resume() resolves: on a context closed in the
\* meantime it may resolve and may reject
ResumeOutcomes(au) == IF au.closed THEN BOOLEAN ELSE {TRUE}

\* start(), after ctx.resume(): src.start(), which nothing hears on a
\* closed context; a rejection ends start() where it is
ResumeSettled(au, ok) ==
  IF ok /\ au.pc = "resuming"
  THEN [au EXCEPT !.pc = "idle", !.playing = ~au.closed]
  ELSE [au EXCEPT !.pc = "idle"]

\* AmbientAudio.dispose()
AudioDispose(au) ==
  [au EXCEPT !.ctx = FALSE, !.nodes = FALSE, !.playing = FALSE,
             !.closed = au.ctx \/ @, !.released = TRUE]

\* toggleMuted()
ToggleMuted(au) ==
  [au EXCEPT !.muted = ~@,
             !.gain = IF ~au.ctx THEN @
                      ELSE IF ~au.muted THEN 0
                      ELSE IF au.version = "baseGain" THEN au.baseGain
                      ELSE GeneratedGain]

\* the overlay and the audio
Ui(o, au) == [o |-> o, au |-> au]

\* enter() without the test of the status
EnterAnyStatus(u) ==
  [u EXCEPT !.o = SetStatus(u.o, "running"), !.au = AudioStart(u.au)]

\* enter() leaving the status at "ready"
EnterStaysReady(u) ==
  IF u.o.status # "ready" THEN u
  ELSE [u EXCEPT !.au = AudioStart(u.au)]

\* enter(), up to the await in createApp's onEnter, which calls
\* audio.start()
Enter(u) ==
  IF u.o.status # "ready" THEN u
  ELSE [u EXCEPT !.o = SetStatus(u.o, "running"), !.au = AudioStart(u.au)]

\* onKeydown(e)
OnKeydown(u, key) ==
  IF u.o.status # "ready" THEN u
  ELSE IF key \in {"Enter", " "} THEN Enter(u)
  ELSE u

\* dispose() of the overlay
OverlayDispose(o) ==
  IF o.disposed THEN o ELSE [o EXCEPT !.disposed = TRUE, !.keydown = FALSE]

\* WinterMysticExperience.dispose()
ExperienceDispose(c) ==
  [c EXCEPT !.rafPending = FALSE, !.resizeRafPending = FALSE,
            !.listening = FALSE, !.gpu = IF c.loaded THEN 0 ELSE @,
            !.loaded = FALSE]

MaxGestures == 3     \* clicks of the enter button and keys pressed
MaxDisposals == 2    \* calls of WinterMysticExperience.dispose()
MaxResizes == 1      \* resize events

Keys == {"Enter", " ", "a"}

AppInit ==
  /\ overlay = NewOverlay
  /\ audio = NewAudio
  /\ app = NewApp
  /\ seen = NothingSeen
  /\ assets = NoAssets
  /\ buffer = NoBuffer
  /\ acid = NoAcid
  /\ touch = NoTouch
  /\ ctl = NewExperience
  /\ reported = <<>>
  /\ poster = NewPoster
  /\ budget = [NoBudget EXCEPT !.gestures = MaxGestures,
                               !.disposals = MaxDisposals,
                               !.resizes = MaxResizes]
  /\ world = NewWorld("thrust")
  /\ held = NotHeld
  /\ left = [starts |-> 0, flaps |-> 0, toggles |-> 0, recenters |-> 0,
             frames |-> 0]
  /\ frameDt = DtCap

AppAtRest ==
  /\ overlay = NewOverlay
  /\ audio = NewAudio
  /\ app = NewApp
  /\ seen = NothingSeen
  /\ assets = NoAssets
  /\ buffer = NoBuffer
  /\ acid = NoAcid
  /\ touch = NoTouch

\* start(): the catch, with ui.setStatus("ready") in place of "error"
StartFailedReady(o) == SetStatus(o, "ready")

\* start(): catch (err) { ui.setStatus("error", ...); throw err }
StartFailed(o) == SetStatus(o, "error")

\* createApp's start(), up to the await in preload(); if the renderer
\* cannot be made, preload() rejects and start() reports the error
AppStart ==
  /\ ~app.started
  /\ ~seen.disposed
  /\ app' = [app EXCEPT !.started = TRUE]
  /\ \E ok \in BOOLEAN :
       IF ok
       THEN /\ overlay' = SetStatus(overlay, "loading")
            /\ ctl' = [ctl EXCEPT !.preload = "awaiting", !.gpu = @ + 1]
       ELSE /\ overlay' = StartFailed(SetStatus(overlay, "loading"))
            /\ ctl' = [ctl EXCEPT !.preload = "failed"]
  /\ UNCHANGED <<audio, seen, world, reported, budget>>

\* createPosterTexture() settles: the rest of preload(), then of start(); if
\* it rejects, so does preload(), and start() reports the error
PosterSettles ==
  /\ ctl.preload = "awaiting"
  /\ \E ok \in BOOLEAN :
       IF ok
       THEN /\ ctl' = Preloaded(ctl)
            /\ world' = NewWorld("thrust")
            /\ overlay' = SetStatus(overlay, "ready")
       ELSE /\ ctl' = [ctl EXCEPT !.preload = "failed"]
            /\ world' = world
            /\ overlay' = StartFailed(overlay)
  /\ UNCHANGED <<audio, app, seen, reported, budget>>

\* a click on the enter button, which a disabled button does not take
ClickEnter ==
  /\ ~overlay.enterDisabled
  /\ ~overlay.disposed
  /\ budget.gestures > 0
  /\ LET u == Enter(Ui(overlay, audio))
     IN  overlay' = u.o /\ audio' = u.au
  /\ seen' = [seen EXCEPT !.last = "click",
                          !.again = @ \/ overlay.status = "running"]
  /\ budget' = [budget EXCEPT !.gestures = @ - 1]
  /\ UNCHANGED <<app, ctl, world, reported>>

\* a key pressed
Keydown ==
  /\ overlay.keydown
  /\ budget.gestures > 0
  /\ \E key \in Keys :
       /\ LET u == OnKeydown(Ui(overlay, audio), key)
          IN  overlay' = u.o /\ audio' = u.au
       /\ seen' = [seen EXCEPT !.last = key,
                               !.again = @ \/ (overlay.status = "running"
                                                 /\ key \in {"Enter", " "})]
  /\ budget' = [budget EXCEPT !.gestures = @ - 1]
  /\ UNCHANGED <<app, ctl, world, reported>>

\* the kinds of buffer loadWithFallback() returns
BufferKinds == {"generated", "file"}

\* loadWithFallback() settles: start() goes on to ctx.resume()
AudioLoadSettles ==
  /\ audio.pc = "loading"
  /\ \E kind \in BufferKinds : audio' = LoadSettled(audio, kind)
  /\ UNCHANGED <<overlay, app, seen, ctlVars, world>>

\* ctx.resume() settles: the rest of start(), then of onEnter, which goes
\* on to setPhase("intro") and begin() if start() has not rejected
AudioResumeSettles ==
  /\ audio.pc \in {"resuming", "resumingOnly"}
  /\ \E ok \in ResumeOutcomes(audio) :
       /\ audio' = [ResumeSettled(audio, ok) EXCEPT !.phase = "intro"]
       /\ IF ok THEN Becomes(Begin(Now))
          ELSE UNCHANGED <<ctl, world, reported>>
  /\ UNCHANGED <<overlay, app, seen, budget>>

MaxAudioStarts == 2   \* calls of start()
MaxMutes == 3         \* calls of toggleMuted()
MaxAudioDisposals == 2 \* calls of dispose()

\* an AmbientAudio of either version, used by itself
AudioInit ==
  /\ \E version \in AudioVersions :
       audio = [NewAudio EXCEPT !.version = version]
  /\ budget = [NoBudget EXCEPT !.mutes = MaxMutes,
                               !.disposals = MaxAudioDisposals]

\* start() is called, no call of it in flight
AudioStartCall ==
  /\ audio.pc = "idle"
  /\ audio.starts < MaxAudioStarts
  /\ audio' = AudioStart(audio)
  /\ UNCHANGED budget

\* ctx.resume() settles: the rest of start()
AudioResumeDone ==
  /\ audio.pc \in {"resuming", "resumingOnly"}
  /\ \E ok \in ResumeOutcomes(audio) : audio' = ResumeSettled(audio, ok)
  /\ UNCHANGED budget

\* toggleMuted() is called
AudioToggleMuted ==
  /\ budget.mutes > 0
  /\ audio' = ToggleMuted(audio)
  /\ budget' = [budget EXCEPT !.mutes = @ - 1]

\* dispose() is called
AudioDisposeCall ==
  /\ budget.disposals > 0
  /\ audio' = AudioDispose(audio)
  /\ budget' = [budget EXCEPT !.disposals = @ - 1]

\* an animation frame of the loop
AppFrame ==
  /\ CtlFrame
  /\ UNCHANGED appVars

\* onResize(), on resize, orientationchange and the visual viewport
ResizeEvent ==
  /\ ctl.listening
  /\ budget.resizes > 0
  /\ ctl' = [ctl EXCEPT !.resizeRafPending = TRUE]
  /\ budget' = [budget EXCEPT !.resizes = @ - 1]
  /\ UNCHANGED <<appVars, world, reported>>

\* the animation frame that onResize() asked for
ResizeFrame ==
  /\ ctl.resizeRafPending
  /\ ctl' = [ctl EXCEPT !.resizeRafPending = FALSE]
  /\ UNCHANGED <<appVars, world, reported, budget>>

\* WinterMysticExperience.dispose(), called by itself
CtlDispose ==
  /\ budget.disposals > 0
  /\ ctl' = ExperienceDispose(ctl)
  /\ seen' = [seen EXCEPT !.disposed = TRUE]
  /\ budget' = [budget EXCEPT !.disposals = @ - 1]
  /\ UNCHANGED <<overlay, audio, app, world, reported>>

\* createApp's dispose()
AppDispose ==
  /\ ~app.disposed
  /\ app' = [app EXCEPT !.disposed = TRUE]
  /\ overlay' = OverlayDispose(overlay)
  /\ ctl' = ExperienceDispose(ctl)
  /\ audio' = AudioDispose(audio)
  /\ seen' = [seen EXCEPT !.disposed = TRUE]
  /\ UNCHANGED <<world, reported, budget>>

SpecAppInit == AppInit /\ PerfAtRest
SpecAppNext ==
  /\ \/ AppStart
     \/ PosterSettles
     \/ ClickEnter
     \/ Keydown
     \/ AudioLoadSettles
     \/ AudioResumeSettles
     \/ AppFrame
     \/ ResizeEvent
     \/ ResizeFrame
     \/ CtlDispose
     \/ AppDispose
  /\ UNCHANGED <<perfVars, held, left, frameDt, poster, assets, buffer,
                 acid, touch>>
SpecApp == SpecAppInit /\ [][SpecAppNext]_vars

SpecAudioInit ==
  AudioInit /\ PerfAtRest /\ WorldAtRest /\ AssetsAtRest /\ BufferAtRest
    /\ AcidAtRest /\ TouchAtRest /\ ctl = NewExperience /\ reported = <<>>
    /\ poster = NewPoster /\ overlay = NewOverlay /\ app = NewApp
    /\ seen = NothingSeen
SpecAudioNext ==
  /\ \/ AudioStartCall
     \/ AudioLoadSettles
     \/ AudioResumeDone
     \/ AudioToggleMuted
     \/ AudioDisposeCall
  /\ UNCHANGED <<perfVars, worldVars, ctl, reported, poster, overlay, app,
                 seen, assets, buffer, acid, touch>>
SpecAudio == SpecAudioInit /\ [][SpecAudioNext]_vars

SpecTouchInit ==
  /\ ctl = PosterViewReached.c
  /\ world = PosterViewReached.w
  /\ reported = PosterViewReached.log
  /\ budget = [NoBudget EXCEPT !.pointers = MaxTouches]
  /\ poster = NewPoster
  /\ held = NotHeld
  /\ left = [starts |-> 0, flaps |-> 0, toggles |-> 0, recenters |-> 0,
             frames |-> 0]
  /\ frameDt = DtCap
  /\ PerfAtRest /\ AssetsAtRest /\ BufferAtRest /\ AcidAtRest
  /\ overlay = NewOverlay /\ audio = NewAudio /\ app = NewApp
  /\ seen = NothingSeen /\ touch = NoTouch
SpecTouchNext ==
  /\ \/ CtlFrame /\ UNCHANGED touch
     \/ TouchDown
     \/ TouchUp
  /\ UNCHANGED <<perfVars, held, left, frameDt, poster, overlay, audio, app,
                 seen, assets, buffer, acid>>
SpecTouch == SpecTouchInit /\ [][SpecTouchNext]_vars

SpecCtlInit == CtlInit /\ PerfAtRest /\ AppAtRest
SpecCtlNext ==
  /\ \/ CtlBegin
     \/ CtlFrame
     \/ CtlPointerDown
     \/ CtlPointerMove
     \/ CtlPointerUp
     \/ CtlBlur
     \/ CtlRecenter
     \/ CtlSkipIntro
  /\ UNCHANGED <<perfVars, held, left, frameDt, appVars, poster>>
SpecCtl == SpecCtlInit /\ [][SpecCtlNext]_vars

\* the browser keeps calling the requested animation frame
SpecCtlFair ==
  SpecCtlInit /\ [][SpecCtlNext]_vars /\ WF_<<ctl, world>>(CtlFrame)

SpecPosterInit == PosterInit /\ PerfAtRest /\ AppAtRest
SpecPosterNext ==
  /\ \/ PosterFrame
     \/ PosterPointerDown
     \/ PosterPointerMove
     \/ PosterPointerUp
     \/ PosterBlurEvent
     \/ PosterWheelEvent
     \/ PosterResize
     \/ PosterRecenter
  /\ UNCHANGED <<perfVars, held, left, frameDt, appVars>>
SpecPoster == SpecPosterInit /\ [][SpecPosterNext]_vars

SpecAssetsInit ==
  AssetsInit /\ PerfAtRest /\ WorldAtRest /\ CtlAtRest /\ BufferAtRest
    /\ AcidAtRest /\ TouchAtRest
    /\ overlay = NewOverlay /\ audio = NewAudio /\ app = NewApp
    /\ seen = NothingSeen
SpecAssetsNext ==
  /\ \/ LoadBegins
     \/ EnvLoadSettles
     \/ DefaultLoadSettles
  /\ UNCHANGED <<perfVars, worldVars, ctlVars, overlay, audio, app, seen,
                 buffer, acid, touch>>
SpecAssets == SpecAssetsInit /\ [][SpecAssetsNext]_vars

SpecBufferInit ==
  BufferInit /\ PerfAtRest /\ WorldAtRest /\ CtlAtRest /\ AssetsAtRest
    /\ AcidAtRest /\ TouchAtRest
    /\ overlay = NewOverlay /\ audio = NewAudio /\ app = NewApp
    /\ seen = NothingSeen
SpecBufferNext ==
  /\ \/ CrossfadePass
     \/ NextChannel
  /\ UNCHANGED <<perfVars, worldVars, ctlVars, overlay, audio, app, seen,
                 assets, acid, touch>>
SpecBuffer == SpecBufferInit /\ [][SpecBufferNext]_vars

SpecAcidInit ==
  AcidInit /\ PerfAtRest /\ WorldAtRest /\ CtlAtRest /\ AssetsAtRest
    /\ BufferAtRest /\ overlay = NewOverlay /\ audio = NewAudio
    /\ app = NewApp /\ seen = NothingSeen /\ TouchAtRest
SpecAcidNext ==
  /\ \/ AcidFrame
     \/ AcidSetPhase
  /\ UNCHANGED <<perfVars, worldVars, ctlVars, overlay, audio, app, seen,
                 assets, buffer, touch>>
SpecAcid == SpecAcidInit /\ [][SpecAcidNext]_vars

SpecWorldInit == WorldInit /\ PerfAtRest /\ CtlAtRest /\ AppAtRest
SpecWorldNext ==
  /\ \/ WorldStart
     \/ WorldFlap
     \/ WorldSetThrusting
     \/ WorldRecenter
     \/ WorldTriggerGameOver
     \/ WorldUpdate
  /\ UNCHANGED <<perfVars, ctlVars, appVars>>
SpecWorld == SpecWorldInit /\ [][SpecWorldNext]_vars

SpecFlightInit == FlightInit /\ PerfAtRest /\ CtlAtRest /\ AppAtRest
SpecFlightNext ==
  /\ \/ WorldFlap
     \/ WorldSetThrusting
     \/ WorldUpdate
  /\ UNCHANGED <<perfVars, ctlVars, appVars>>
SpecFlight == SpecFlightInit /\ [][SpecFlightNext]_vars

SpecEndureInit == EndureInit /\ PerfAtRest /\ CtlAtRest /\ AppAtRest
SpecEndureNext ==
  /\ \/ Alert /\ WorldFlap
     \/ Alert /\ WorldSetThrusting
     \/ Alert /\ WorldRecenter
     \/ WorldAdvance
  /\ UNCHANGED <<perfVars, ctlVars, appVars>>
\* update() keeps being called with dt > 0
SpecEndure ==
  SpecEndureInit /\ [][SpecEndureNext]_vars /\ WF_worldVars(WorldAdvance)

SpecPerfInit ==
  PerfInit /\ CallerInit /\ WorldAtRest /\ CtlAtRest /\ AppAtRest
SpecPerfNext == PerfTick /\ UNCHANGED <<worldVars, ctlVars, appVars>>
SpecPerf == SpecPerfInit /\ [][SpecPerfNext]_vars

(***************************************************************************)
(* PerfScaler properties                                                   *)
(***************************************************************************)

\* a frame() step that evaluates, reached by frames spaced 1/30 s for 2 s
Steady30Eval == gap' = Gap30 /\ streak' >= 60 /\ lastEval' # lastEval
\* a frame() step that evaluates, reached by frames spaced 1/60 s for 2 s
Steady60Eval == gap' = Gap60 /\ streak' >= 120 /\ lastEval' # lastEval
\* a frame() step that evaluates (the first call only records the time)
Evaluates == lastFrame # 0 /\ lastEval' # lastEval

\* C1: the pixel ratio, and every ratio handed to onChange, stays within
\* [minPixelRatio, max(minPixelRatio, maxPixelRatio)].
C1_RatioWithinBounds ==
  LET hi == Max(minPixelRatio, maxPixelRatio)
  IN  /\ minPixelRatio <= pixelRatio
      /\ pixelRatio <= hi
      /\ onChange.called =>
            minPixelRatio <= onChange.pixelRatio /\ onChange.pixelRatio <= hi

\* C1 witness: an evaluation clamped the ratio onto the lower bound
C1_Witness ==
  /\ onChange.called
  /\ lastFrame # 0
  /\ onChange.pixelRatio = minPixelRatio
  /\ maxPixelRatio = One

\* C2 as claimed: at 30 fps every evaluation lowers the ratio by exactly
\* 0.15 until it equals minPixelRatio, and then it stays there.
C2_ExactStepDown ==
  [][Steady30Eval =>
       pixelRatio' = IF pixelRatio = minPixelRatio
                     THEN minPixelRatio
                     ELSE pixelRatio - StepDown]_vars

\* C2 amended: at 30 fps every evaluation lowers the ratio by 0.15, the
\* last step shortened so that it lands on minPixelRatio; a ratio within
\* 0.001 of minPixelRatio is left where it is.
C2_ClampedStepDown ==
  [][Steady30Eval =>
       pixelRatio' = IF pixelRatio - minPixelRatio > ChangeEpsilon
                     THEN Max(minPixelRatio, pixelRatio - StepDown)
                     ELSE pixelRatio]_vars

\* C2 witness: 2 s of 30 fps ended in a shortened step onto the floor
C2_Witness ==
  /\ gap = Gap30 /\ streak >= 60 /\ lastEval = lastFrame
  /\ onChange.called
  /\ pixelRatio = minPixelRatio
  /\ maxPixelRatio = One

\* C3 as claimed: at 60 fps every evaluation raises the ratio, by 0.1 or
\* onto maxPixelRatio, until it equals maxPixelRatio; at maxPixelRatio
\* nothing changes and onChange is not called.
C3_RaisesToCeiling ==
  [][Steady60Eval =>
       IF pixelRatio = maxPixelRatio
       THEN /\ UNCHANGED <<pixelRatio, qualityLevel>>
            /\ ~onChange'.called
       ELSE /\ pixelRatio' > pixelRatio
            /\ pixelRatio' = pixelRatio + StepUp \/ pixelRatio' = maxPixelRatio
    ]_vars

\* C3 amended: at 60 fps every evaluation raises the ratio to
\* min(maxPixelRatio, ratio + 0.1); a ratio within 0.001 of maxPixelRatio
\* (maxPixelRatio itself included) is left where it is, with the quality
\* level, and onChange is not called.
C3_ClampedStepUp ==
  [][Steady60Eval =>
       IF maxPixelRatio - pixelRatio > ChangeEpsilon
       THEN /\ pixelRatio' = Min(maxPixelRatio, pixelRatio + StepUp)
            /\ onChange'.called
       ELSE /\ UNCHANGED <<pixelRatio, qualityLevel>>
            /\ ~onChange'.called
    ]_vars

\* C3 witness: 2 s of 60 fps ended in an evaluation at the upper bound that
\* changed nothing, after the ratio had been lowered and raised again
C3_Witness ==
  /\ gap = Gap60 /\ streak >= 120 /\ lastEval = lastFrame
  /\ switches >= 1
  /\ pixelRatio = maxPixelRatio
  /\ maxPixelRatio > minPixelRatio
  /\ ~onChange.called

\* the quality level 0.25 + 0.75 * (r - min) / (max - min), up to rounding
QualityMatches(q, r) ==
  LET span == maxPixelRatio - minPixelRatio
      exact == QualitySpan * (r - minPixelRatio)
  IN  /\ QualityFloor <= q /\ q <= One
      /\ span > 0 => /\ (q - QualityFloor) * span <= exact
                      /\ exact < (q - QualityFloor + 2) * span

EscapesNow == world.state = "playing" /\ ~world.didEscape /\ world'.didEscape

\* an update() of a playing world, of positive dt, in which the escape
\* condition does not hold
LapsesNow ==
  /\ world.state = "playing"
  /\ world'.playElapsed > world.playElapsed
  /\ held'.run = 0

\* C5 as stated: the world leaves playing for escape only in an update()
\* before which the escape condition has held on every update for the whole
\* charge duration (0.85 s lift, 0.15 s thrust): a lapse costs the whole
\* charge.
C5_EscapeAfterUnbrokenHold ==
  [][EscapesNow => held'.run >= ChargeFull(world)]_vars

\* C5 as the code has it: the world leaves playing for escape only in an
\* update() in which the escape condition holds and the charge reaches the
\* charge duration; the condition has then held for at least that long in
\* all since the charge was last zero.  An update() in which the condition
\* lapses drains the charge by 2.6 dt (lift) or 2.2 dt (thrust), down to
\* zero at most, and what is left of it counts towards the next escape.
C5_EscapeAfterChargeFills ==
  [][/\ EscapesNow =>
          /\ held'.run > 0
          /\ held'.sum >= ChargeFull(world)
          /\ world.escapeCharge + (world'.playElapsed - world.playElapsed)
               >= ChargeFull(world)
     /\ LapsesNow =>
          world'.escapeCharge =
            Max(0, world.escapeCharge
                     - ((world'.playElapsed - world.playElapsed)
                          * ChargeDrain(world)) \div 10)]_vars

\* an escape although the condition lapsed while the charge was filling
C5_Witness ==
  /\ world.state = "escape"
  /\ world.didEscape
  /\ held.run < ChargeFull(world)
  /\ held.sum >= ChargeFull(world)

WorldEdges ==
  {<<"idle", "playing">>, <<"playing", "escape">>,
   <<"playing", "gameover">>, <<"escape", "gameover">>}

\* C6 as stated: whatever is called, the state of the world changes only
\* along idle->playing, playing->escape, playing->gameover and
\* escape->gameover.
C6_OnlyListedTransitions ==
  [][world'.state # world.state =>
       <<world.state, world'.state>> \in WorldEdges]_vars

\* C6 as the code has it: the state of the world changes only along
\* idle->playing, playing->escape, playing->gameover and escape->gameover,
\* or by start(), which puts the world in playing from any state.
C6_ListedTransitionsOrRestart ==
  [][world'.state # world.state =>
       \/ <<world.state, world'.state>> \in WorldEdges
       \/ left'.starts < left.starts /\ world'.state = "playing"]_vars

\* a world that was started again and has flown off a second time
C6_Witness ==
  /\ world.state = "gameover"
  /\ world.didEscape
  /\ left.starts < MaxStarts - 1

(***************************************************************************)
(* Controller properties                                                   *)
(***************************************************************************)
\* the phases, as the loop tells them apart
InIntro == ctl.introActive
InCountdown == ~ctl.introActive /\ ctl.countdownActive
InPlay ==
  /\ ~ctl.introActive
  /\ ~ctl.countdownActive
  /\ ctl.playActive
  /\ ~ctl.gameOver
InOutro == ctl.outroActive
InPosterView == ctl.gameOver /\ ~ctl.outroActive

PhasesNow ==
  {p \in {"intro", "countdown", "play", "outro", "poster"} :
     \/ p = "intro" /\ InIntro
     \/ p = "countdown" /\ InCountdown
     \/ p = "play" /\ InPlay
     \/ p = "outro" /\ InOutro
     \/ p = "poster" /\ InPosterView}

\* C7: once begin() has run, the controller is at every frame boundary in
\* exactly one of the phases intro, countdown, play, outro and poster view,
\* whatever frames, pointer events, recenter() and skipIntro() calls arrive.
C7_ExactlyOnePhase == ctl.running => Cardinality(PhasesNow) = 1

PhaseOrder == <<"intro", "countdown", "play", "outro", "gameover">>

\* C8: the phases reported to music.setPhase() form a prefix of intro,
\* countdown, play, outro, gameover.
C8_ReportedInOrder ==
  /\ Len(reported) <= Len(PhaseOrder)
  /\ \A i \in 1..Len(reported) : reported[i] = PhaseOrder[i]

(***************************************************************************)
(* App properties                                                          *)
(***************************************************************************)
\* C9: once WinterMysticExperience.dispose() has returned, whenever it was
\* called, no animation frame of the loop or of the resize debounce is
\* pending, no listener of the experience is registered or becomes so later,
\* and the renderer and the world are released.
C9_DisposedStaysReleased ==
  seen.disposed =>
    /\ ~ctl.rafPending
    /\ ~ctl.resizeRafPending
    /\ ~ctl.listening
    /\ ctl.gpu = 0

\* C10: AmbientAudio.start() is called only in a step that is a click of
\* the enter button or an Enter or Space key press, taken while the status
\* of the overlay is ready; not in status loading or error, and not before
\* a gesture of the user.
C10_AudioStartsOnlyOnEnter ==
  [][audio'.starts # audio.starts =>
       /\ overlay.status = "ready"
       /\ budget'.gestures < budget.gestures
       /\ seen'.last \in {"click", "Enter", " "}]_vars

\* the audio was started by a key, and the experience has begun
C10_Witness ==
  /\ audio.starts = 1
  /\ audio.playing
  /\ seen.last \in {"Enter", " "}
  /\ ctl.running

(***************************************************************************)
(* The order of the calls of a frame                                       *)
(***************************************************************************)
\* where call c is in the sequence q
Places(q, c) == {i \in 1..Len(q) : q[i] = c}

\* the calls of the frame that is about to run
NextFrameCalls == LoopCalls(Now, DtCap)

\* perf-scaler frame first, audio frame second, the countdown and
\* world.start() before world.update(), the render last
OuterOrder(q) ==
  /\ q[1] = "perfScaler.frame"
  /\ q[2] = "music.frame"
  /\ Cardinality(Places(q, "world.update")) = 1
  /\ \A i \in Places(q, "countdown") \cup Places(q, "world.start") :
       \A j \in Places(q, "world.update") : i < j
  /\ Places(q, "render") = {Len(q)}

\* no camera pose before world.update()
PoseAfterUpdate(q) ==
  \A i \in Places(q, "camera") : \A j \in Places(q, "world.update") : j < i

\* C11 (as stated): in every frame of the loop, in every phase, the calls
\* run in the order perf-scaler frame, audio frame, phase and physics
\* update, camera pose, render: no camera pose before world.update().
C11_FixedOrderEveryPhase ==
  ctl.rafPending /\ ctl.loaded =>
    OuterOrder(NextFrameCalls) /\ PoseAfterUpdate(NextFrameCalls)

\* C11 (amended): in every frame the perf-scaler frame is first, the audio
\* frame second, the countdown handling before world.update() and the
\* render last; outside the intro every camera pose comes after
\* world.update() and there is one, while a frame of the intro places the
\* camera before world.update().
C11_FixedOrderIntroPosesFirst ==
  ctl.rafPending /\ ctl.loaded =>
    /\ OuterOrder(NextFrameCalls)
    /\ ~ctl.introActive =>
         /\ PoseAfterUpdate(NextFrameCalls)
         /\ Places(NextFrameCalls, "camera") # {}
    /\ ctl.introActive =>
         \E i \in Places(NextFrameCalls, "camera") :
           \A j \in Places(NextFrameCalls, "world.update") : i < j

\* a frame of the play is about to run, and a frame of the intro has run
C11_Witness ==
  /\ ctl.rafPending
  /\ ctl.playActive
  /\ world.state = "playing"
  /\ world.playElapsed > 0
  /\ Len(NextFrameCalls) = 5

(***************************************************************************)
(* The start of the flight                                                 *)
(***************************************************************************)
\* C12: the world is never in state playing while the intro or the
\* countdown of the controller is active: world.start() is called only in
\* the frame in which the countdown reaches zero, and the countdown begins
\* only when the intro has ended.
C12_NotPlayingBeforeCountdownEnds ==
  ctl.running /\ (ctl.introActive \/ ctl.countdownActive) =>
    world.state # "playing"

(***************************************************************************)
(* The end of the flight                                                   *)
(***************************************************************************)
\* C13: once the world is playing and update() keeps being called with
\* dt > 0, without another start(), the world reaches gameover whatever
\* flap(), setThrusting() and recenter() calls arrive: the play time of a
\* playing world stays below the fail-safe limit, the escape time of an
\* escaping world below the escape duration, and gameover is reached.
C13_ReachesGameOver ==
  /\ [](world.state = "playing" => world.playElapsed < FailSafe(world))
  /\ [](world.state = "escape" =>
          /\ world.escapeElapsed < EscapeDuration(world)
          /\ world.playElapsed <= FailSafe(world) + frameDt)
  /\ <>(world.state = "gameover")

\* the fail-safe has ended a flight that got inputs and did not escape
C13_Witness ==
  /\ world.state = "gameover"
  /\ ~world.didEscape
  /\ world.playElapsed >= FailSafe(world)
  /\ left.flaps < EndureFlaps

(***************************************************************************)
(* The escape                                                              *)
(***************************************************************************)
\* the lengths of an update() tried on an escaping world
EscapeDts == {0, DtCap, QuickFrame, SlowFrame, LongDt}

\* C14: an escaping world has not yet reached its escape duration; an
\* update(dt) adds dt to the escape time and moves to gameover exactly when
\* the sum reaches the duration (3.2 s lift, 1.05 s thrust); flap(),
\* triggerGameOver() and recenter() change neither the state nor the escape
\* time.
C14_EscapeLastsItsDuration ==
  world.state = "escape" =>
    /\ world.escapeElapsed < EscapeDuration(world)
    /\ \A dt \in EscapeDts :
         LET u == Update(world, dt)
         IN  /\ u.escapeElapsed = world.escapeElapsed + dt
             /\ u.state = IF world.escapeElapsed + dt >= EscapeDuration(world)
                          THEN "gameover" ELSE "escape"
    /\ \A f \in {Flap(world), TriggerGameOver(world), Recenter(world)} :
         /\ f.state = "escape"
         /\ f.escapeElapsed = world.escapeElapsed

\* an escape under way in which recenter() was called
C14_Witness ==
  /\ world.state = "escape"
  /\ world.escapeElapsed > frameDt
  /\ world.y = BaseY
  /\ left.recenters < EndureRecenters

(***************************************************************************)
(* recenter() of the world                                                 *)
(***************************************************************************)
\* C15: recenter(), in any state and with any values before it, leaves the
\* vertical velocity, the lift, the lift-decay hold, the engine pulse, the
\* flap kick, the escape charge and the smoothed pitch at zero, and the
\* player at y = baseY with zero rotation.
C15_RecenterResets ==
  LET r == Recenter(world)
  IN  /\ r.yVel = 0
      /\ r.lift = 0
      /\ r.liftDecayHold = 0
      /\ r.enginePulse = 0
      /\ r.flapKick = 0
      /\ r.escapeCharge = 0
      /\ r.smoothPitch = 0
      /\ r.y = BaseY
      /\ PlayerRotationZ(r) = 0

(***************************************************************************)
(* Thrust-based world: the climb                                           *)
(***************************************************************************)
\* an update() of a frame's length, dt > 0, on a playing thrust-based world
\* that is thrusting
ThrustFrame ==
  /\ ~IsLift(world)
  /\ world.state = "playing"
  /\ world.thrusting
  /\ world'.playElapsed = world.playElapsed + frameDt

PosterIds(q) == {q.pointers[i].id : i \in 1..Len(q.pointers)}

\* what the camera of the poster view is posed from
PosterView(q) == <<q.panX, q.panY, q.zoom, q.yaw, q.pitch>>

\* the mode of the gesture against the pointers on the poster
ModeMatchesCount(q) ==
  CASE q.gesture.mode = "none" -> TRUE
    [] q.gesture.mode \in {"rotate", "pan"} ->
         Len(q.pointers) = 1 /\ q.pointers[1].mode = q.gesture.mode
    [] q.gesture.mode = "pinch" -> Len(q.pointers) >= 2

\* C17: whenever a pointer joins or leaves the pointers of the poster view
\* (pointerdown, pointerup or pointercancel, blur) the gesture is cleared; a
\* pointermove that finds the gesture cleared only notes where the pointers
\* are and changes none of pan, zoom, yaw and pitch; and the mode of the
\* gesture always matches the number of pointers: rotate or pan with exactly
\* one, pinch with two or more.
C17_GestureFollowsPointers ==
  /\ [](ModeMatchesCount(poster))
  /\ [][/\ PosterIds(poster') # PosterIds(poster) =>
             poster'.gesture = NoGesture
        /\ budget'.pointers < budget.pointers /\ TakesPosterPointer =>
             poster'.gesture = NoGesture
        /\ poster.gesture = NoGesture /\ budget'.moves < budget.moves =>
             PosterView(poster') = PosterView(poster)]_vars

\* two pointers are on the poster and their first move has been noted as the
\* start of a pinch, the view still as it was reset
C17_Witness ==
  /\ Len(poster.pointers) = 2
  /\ poster.gesture.mode = "pinch"
  /\ budget.moves = MaxPosterMoves - 1
  /\ PosterView(poster) = PosterView(ResetPosterView(poster))

\* zoom, yaw, pitch and pan are within their limits, maxPan being
\* max(0, half the poster - half of what is visible) at the current zoom
PosterConstrained(q) ==
  /\ q.zoom >= ZoomMin /\ q.zoom <= ZoomMax
  /\ q.yaw >= -YawMax /\ q.yaw <= YawMax
  /\ q.pitch >= -PitchMax /\ q.pitch <= PitchMax
  /\ q.panX >= -MaxPanX(q) /\ q.panX <= MaxPanX(q)
  /\ q.panY >= -MaxPanY(q) /\ q.panY <= MaxPanY(q)

\* C18 as stated: after any wheel, drag, pinch, resize and recenter events
\* zoom, yaw, pitch and pan are within their limits, and at zoom 1 there is
\* no pan at all.
C18_ConstrainedNoPanAtZoomOne ==
  /\ PosterConstrained(poster)
  /\ poster.zoom = ZoomMin => poster.panX = 0 /\ poster.panY = 0

\* C18, amended: after any wheel, drag, pinch, resize and recenter events
\* zoom, yaw, pitch and pan are within their limits; at zoom 1 there is no
\* vertical pan, and no horizontal pan when what is visible is at least as
\* wide as the poster.
C18_ConstrainedPanWithinPoster ==
  /\ PosterConstrained(poster)
  /\ poster.zoom = ZoomMin =>
       /\ poster.panY = 0
       /\ VisibleW(poster) >= PosterWidth => poster.panX = 0

\* zoomed in, a drag has taken the pan to its limit
C18_Witness ==
  /\ ctl.gameOver /\ ~ctl.outroActive
  /\ poster.zoom > ZoomMin
  /\ MaxPanX(poster) > 0
  /\ poster.panX = MaxPanX(poster)
  /\ budget.moves = 0

(***************************************************************************)
(* The loading of the poster and of the ambient audio                      *)
(***************************************************************************)

\* how the load of the URL tried ends
OutcomeOf(a, url) == IF url = "env" THEN a.envOutcome ELSE a.defaultOutcome

\* every URL the load has tried failed
EveryTriedFailed(a) ==
  \A i \in 1..Len(a.tried) : OutcomeOf(a, a.tried[i]) # "ok"

\* the env URL first when it is set, the default path after it failed or
\* when it is not set
TriedInOrder(a) ==
  /\ a.tried \in {<<>>, <<"env">>, <<"env", "default">>, <<"default">>}
  /\ a.pc # "idle" => Len(a.tried) >= 1 /\ (a.tried[1] = "env" <=> a.envSet)
  /\ Len(a.tried) = 2 => a.envOutcome # "ok"

\* a settled load gave generated content exactly when every URL it tried
\* failed, and then it had tried the default path
GeneratedIffAllFailed(a) ==
  a.pc = "done" =>
    /\ a.result \in {"file", "generated"}
    /\ a.result = "generated" <=>
         EveryTriedFailed(a) /\ a.tried[Len(a.tried)] = "default"

\* C19 as stated: the load of the poster and of the ambient audio tries the
\* env URL first (when set), then the default path, gives generated content
\* exactly when every URL tried failed, and never rejects, whichever of a
\* network error, a status that is not OK and a decode error ends a try.
C19_LoadNeverRejects ==
  /\ TriedInOrder(assets)
  /\ GeneratedIffAllFailed(assets)
  /\ assets.pc # "rejected"

\* C19, amended: as above, but the load of the poster rejects when every
\* URL tried failed and the canvas gives no 2D context to draw the generated
\* poster on; the load of the audio never rejects.
C19_LoadRejectsOnlyWithoutCanvas ==
  /\ TriedInOrder(assets)
  /\ GeneratedIffAllFailed(assets)
  /\ assets.pc = "rejected" =>
       /\ assets.what = "poster"
       /\ ~assets.canvas2d
       /\ EveryTriedFailed(assets)
       /\ assets.tried[Len(assets.tried)] = "default"
  /\ EveryTriedFailed(assets) /\ assets.pc \in {"done", "rejected"}
       /\ (assets.what = "audio" \/ assets.canvas2d) =>
       assets.pc = "done" /\ assets.result = "generated"

\* the audio, its env URL not decodable and its default path not reachable,
\* is the generated loop
C19_Witness ==
  /\ assets.what = "audio"
  /\ assets.envSet
  /\ assets.envOutcome = "decode"
  /\ assets.defaultOutcome = "network"
  /\ assets.pc = "done"
  /\ assets.result = "generated"

(***************************************************************************)
(* A preload() that rejects                                                *)
(***************************************************************************)

\* C20: if experience.preload() rejects, start() sets the overlay status to
\* error; from then on the status is never ready or running, preload() is
\* not tried again, and neither audio.start() nor experience.begin() is
\* invoked, whatever clicks and key presses follow.
C20_FailedPreloadStaysError ==
  /\ [](ctl.preload = "failed" =>
          /\ overlay.status = "error"
          /\ overlay.enterDisabled
          /\ audio.starts = 0 /\ audio.pc = "idle"
          /\ ~ctl.running /\ ~ctl.loaded)
  /\ [][ctl.preload = "failed" =>
          /\ ctl'.preload = "failed"
          /\ ctl'.gpu = ctl.gpu \/ ctl'.gpu = 0
          /\ reported' = reported]_vars

\* the poster's load has made preload() reject, and the Enter key was
\* pressed after that
C20_Witness ==
  /\ ctl.preload = "failed"
  /\ ctl.gpu = 1
  /\ overlay.status = "error"
  /\ seen.last = "Enter"

(***************************************************************************)
(* The seam of the generated loop                                          *)
(***************************************************************************)

\* C21: after the crossfade of createAmbientBuffer(), for every channel and
\* every i in [0, seam) the sample at index i equals the sample at index
\* length - seam + i, with seam = max(1, min(length, floor(0.05 * sr))).
C21_SeamSamplesCoincide ==
  buffer.pc = "done" =>
    LET length == BufferLength(buffer.sr, BufferBars)
        seam == Seam(buffer.sr, BufferBars)
    IN  /\ seam = Max(1, Min(length, buffer.sr \div 20))
        /\ \A ch \in {0, 1} : \A i \in 0..(seam - 1) :
             buffer.data[ch][i] = buffer.data[ch][length - seam + i]

\* a buffer with a seam of three samples is made, and its crossfade has
\* left samples that are not silent
C21_Witness ==
  /\ buffer.pc = "done"
  /\ Seam(buffer.sr, BufferBars) = 3
  /\ buffer.data[0][1] # 0
  /\ buffer.data[1][2] # buffer.data[0][2]

(***************************************************************************)
(* The altitude of the player                                              *)
(***************************************************************************)

\* y and the vertical velocity agree with the floor and the ceiling
AltitudeHeld(w) ==
  /\ w.y >= PlayerYMin(w) /\ w.y <= PlayerYMax(w)
  /\ w.y = PlayerYMin(w) => w.yVel >= 0
  /\ IsLift(w) /\ w.y = PlayerYMax(w) => w.yVel <= 0

\* velocities an update() is tried with, in 1/1000 per second
ProbeVels == {-(400 * Kilo), 0, 400 * Kilo}
ProbeDts == {0, QuickFrame, SlowFrame, LongDt}

\* C22: after every update(), in every state of the world, for every dt and
\* every sequence of inputs, playerYMin <= y <= playerYMax in both worlds;
\* where y is held at the floor the vertical velocity is not negative, and
\* in the lift-based world where y is held at the ceiling it is not
\* positive. The same holds of the update() of a playing world from where
\* the player is with any vertical velocity.
C22_AltitudeWithinBounds ==
  /\ AltitudeHeld(world)
  /\ world.state = "playing" =>
       \A v \in ProbeVels, dt \in ProbeDts :
         AltitudeHeld(Update([world EXCEPT !.yVel = v], dt))

\* an update() has held the player of the thrust-based world at the ceiling
C22_Witness ==
  /\ ~IsLift(world)
  /\ world.y = PlayerYMax(world)
  /\ world.playElapsed > 0

(***************************************************************************)
(* The controls outside the play                                           *)
(***************************************************************************)

\* the intro and the countdown are over, the play is active, the game is not
\* over
ControlsActive(c) ==
  ~c.introActive /\ ~c.countdownActive /\ c.playActive /\ ~c.gameOver

\* C23: the thrust the controller passes to world.setThrusting() and to
\* music.setThrusting() is true only in a frame where the intro and the
\* countdown are over, the play is active and the game is not over; in the
\* frames of the intro, the countdown, the outro and the poster view it is
\* false, whatever pointer is held; and the thrust last passed is true only
\* while that still holds.
C23_ThrustOnlyInPlay ==
  /\ ctl.lastThrusting \/ world.thrusting => ControlsActive(ctl)
  /\ ctl.rafPending /\ ctl.loaded =>
       LET mid == CountdownStep(IntroStep(Now, DtCap), DtCap)
       IN  /\ ThrustOf(mid) => ControlsActive(mid.c)
           /\ ctl.gameOver \/ mid.c.introActive \/ mid.c.countdownActive =>
                ~ThrustOf(mid)

\* a pointer is held in a frame of the countdown, and a frame of the play
\* has passed a true thrust before
C23_Witness ==
  /\ ctl.countdownActive
  /\ ctl.pressing
  /\ ctl.primaryPointerType = "mouse"
  /\ ~ctl.lastThrusting
  /\ \E i \in 1..Len(reported) : reported[i] = "play"

(***************************************************************************)
(* C24: the acid stabs                                                     *)
(***************************************************************************)

\* the steps passed since the pattern started are the steps 0, 1, 2, ...,
\* each once, one sixteenth apart, each before the lookahead of its frame
StepsInOrder(a) ==
  /\ a.stepIndex = Len(a.steps)
  /\ \A i \in 1..Len(a.steps) :
       /\ a.steps[i].step = i - 1
       /\ a.steps[i].at < a.steps[i].now + Lookahead
       /\ a.steps[i].at = a.steps[1].at + (i - 1) * Step16
       /\ i > 1 => a.steps[i].at > a.steps[i - 1].at

\* a frame() in phase play with the generated loop leaves the next step at
\* or after the lookahead
StepsAhead(a) ==
  (a.framed /\ a.phase = "play" /\ a.isGenerated)
    => a.nextStepTime >= a.now + Lookahead

\* a frame() in another phase or with an audio file passes no step
IdleFramePassesNothing ==
  (acid'.frames < acid.frames /\ ~(acid.phase = "play" /\ acid.isGenerated))
    => (acid'.steps = acid.steps /\ acid'.stepIndex = acid.stepIndex
          /\ acid'.nextStepTime = acid.nextStepTime)

\* setPhase("play") puts the pattern at step 0, another phase leaves it
PlayRestartsPattern ==
  acid'.phases < acid.phases
    => IF acid'.phase = "play"
       THEN acid'.stepIndex = 0 /\ acid'.steps = <<>>
              /\ acid'.nextStepTime = acid.now + StepLead
       ELSE acid'.steps = acid.steps /\ acid'.stepIndex = acid.stepIndex

\* C24: in phase play with the generated loop every frame() passes each step
\* of the sequencer once, at times one sixteenth (60 / 155 / 4 s) apart and
\* before now + 0.16 s, and returns with the next step at or after
\* now + 0.16 s; in another phase or with an audio file no step is passed;
\* setPhase("play") starts the pattern again at step 0.
C24_AcidStepsOnceInLookahead ==
  /\ [](StepsInOrder(acid) /\ StepsAhead(acid))
  /\ [][IdleFramePassesNothing /\ PlayRestartsPattern]_vars

\* a stall has been caught up: one frame() passed several steps, one of them
\* at a time already gone, with stabs and rests among them
C24_Witness ==
  /\ acid.phase = "play" /\ acid.isGenerated /\ acid.framed
  /\ acid.phases < MaxAcidPhases
  /\ \E i \in 1..Len(acid.steps) - 1 :
       /\ acid.steps[i].now = acid.steps[i + 1].now
       /\ acid.steps[i].at < acid.steps[i].now
  /\ \E i, j \in 1..Len(acid.steps) :
       acid.steps[i].stab /\ ~acid.steps[j].stab /\ i > 1

(***************************************************************************)
(* C25: the cadence of PerfScaler                                          *)
(***************************************************************************)

\* a frame() step that changes the pixel ratio
RatioChanges == pixelRatio' # pixelRatio

\* the time of a change is the time of its evaluation, 2 s or more after the
\* evaluation before it, and the change is one step
ChangeOnCadence ==
  RatioChanges =>
    /\ lastFrame # 0
    /\ lastEval' = now' /\ onChange'.called
    /\ now' - lastEval >= 2 * 600
    /\ pixelRatio - pixelRatio' <= StepDown
    /\ pixelRatio' - pixelRatio <= StepUp

\* the first frame() call records its time stamp and nothing else
FirstFrameRecords ==
  lastFrame = 0 =>
    /\ lastFrame' = now' /\ lastEval' = now'
    /\ UNCHANGED <<emaFps, pixelRatio, qualityLevel>>
    /\ ~onChange'.called

\* C25: between two changes of pixelRatio 2.0 s or more of the time stamps
\* handed to frame() pass (every change is at an evaluation, the
\* evaluations are 2.0 s or more apart and their times never go back), each
\* change is one step (0.15 or less down, 0.1 or less up), and the first
\* frame() call records the time stamp only, leaving the average, the ratio
\* and the callback alone.
C25_ChangesTwoSecondsApart ==
  /\ [](onChange.called /\ lastFrame # 0 => lastEval = now)
  /\ [][ChangeOnCadence /\ FirstFrameRecords /\ lastEval' >= lastEval]_vars

\* C25 witness: the ratio is changed at an evaluation 4 s or more after the
\* start, the frames 1/60 s apart after frames of another spacing
C25_Witness ==
  /\ onChange.called /\ lastFrame # 0
  /\ gap = Gap60 /\ switches >= 1
  /\ pixelRatio > minPixelRatio /\ pixelRatio < maxPixelRatio
  /\ now >= 4 * 600

(***************************************************************************)
(* C26: the poster view is reached                                         *)
(***************************************************************************)

\* C26: after begin(), with animation frames arriving for ever, the
\* controller at last is in the poster view (gameOver set and the 1.6 s
\* outro over), whatever pointer events, recenter() and skipIntro() calls,
\* finitely many, come between the frames.
C26_PosterViewReached == ctl.running ~> InPosterView

(***************************************************************************)
(* C27, C28: AmbientAudio, dispose() and toggleMuted() against start()     *)
(***************************************************************************)

\* C27: once dispose() has been called, also while start() waits for the
\* buffer or for ctx.resume(), and the start() in flight has settled, the
\* object holds no context and no node and no source is playing, until
\* start() is called again.
C27_DisposedHoldsNothing ==
  (audio.released /\ audio.pc = "idle")
    => (~audio.ctx /\ ~audio.nodes /\ ~audio.playing)

\* the gain the master gain node is to have
AgreedGain(au) ==
  IF au.muted THEN 0
  ELSE IF au.kind = "file" THEN FileGain ELSE GeneratedGain

\* C28: while the master gain node exists its gain is 0 when muted and the
\* base gain when not (0.4 with the generated loop, 0.26 with a loaded
\* file), however toggleMuted() falls between start() and its awaits.
C28_GainFollowsMute == audio.ctx => audio.gain = AgreedGain(audio)

(***************************************************************************)
(* C29: pressing and the fingers on the canvas                             *)
(***************************************************************************)

\* C29: during play pressing is set exactly while a pointer that went down
\* on the canvas is still down, however the pointerdown, pointerup and
\* pointercancel events of several pointers follow each other, no blur
\* among them.
C29_PressingWhileAnyPointerDown ==
  Flying => (ctl.pressing <=> touch.down # {})

(***************************************************************************)
(* C30: the overlay enters once                                            *)
(***************************************************************************)

\* C30: for each time the status of the overlay has become "ready" onEnter
\* is called once at most (createApp's onEnter calls audio.start()): a call
\* moves the status from "ready" to "running" before it is awaited, so the
\* clicks and the Enter and Space keys that follow, also while the first
\* onEnter() is pending, call nothing.
C30_EnterOncePerReady ==
  /\ [](audio.starts <= overlay.readies)
  /\ [][audio'.starts # audio.starts =>
         /\ audio'.starts = audio.starts + 1
         /\ overlay.status = "ready" /\ overlay'.status = "running"]_vars

\* C30 witness: the enter button or an enter key has been pressed again
\* while the audio.start() of the first onEnter() was waiting for its buffer
C30_Witness ==
  /\ seen.again
  /\ audio.starts = 1 /\ audio.pc = "loading"
  /\ overlay.status = "running" /\ ~overlay.disposed

====
